---------------------------- MODULE Spec2Model ----------------------------
(***************************************************************************)
(* docbot: the command policy engine (backend/app/security.py) and the two *)
(* agents that consult it before spawning a subprocess                     *)
(* (backend/app/agents/smart_search_agent.py, gemini_cli_agent.py).        *)
(*                                                                         *)
(* A Python str is modelled as a sequence of one-character strings, so     *)
(* that strip, split, re.search, shlex.split, startswith and               *)
(* Path.resolve are computed character by character as the code does.      *)
(***************************************************************************)
EXTENDS Integers, Sequences, FiniteSets, TLC

(***************************************************************************)
(* Characters and strings                                                  *)
(***************************************************************************)

\* The backquote character (U+0060): a TLA+ string literal cannot hold it, so
\* this atom stands for it wherever a command contains one.
Backquote == "BACKQUOTE"

\* str.strip() and the regex class \s: whitespace characters
Whitespace == {" ", "\t", "\n", "\r"}

IsSpace(c) == c \in Whitespace

LowerOf ==
    ("A" :> "a") @@ ("B" :> "b") @@ ("C" :> "c") @@ ("D" :> "d") @@
    ("E" :> "e") @@ ("F" :> "f") @@ ("G" :> "g") @@ ("H" :> "h") @@
    ("I" :> "i") @@ ("J" :> "j") @@ ("K" :> "k") @@ ("L" :> "l") @@
    ("M" :> "m") @@ ("N" :> "n") @@ ("O" :> "o") @@ ("P" :> "p") @@
    ("Q" :> "q") @@ ("R" :> "r") @@ ("S" :> "s") @@ ("T" :> "t") @@
    ("U" :> "u") @@ ("V" :> "v") @@ ("W" :> "w") @@ ("X" :> "x") @@
    ("Y" :> "y") @@ ("Z" :> "z")

UpperChars == DOMAIN LowerOf

\* re.IGNORECASE: both sides of a literal comparison are case-folded
Lower(c) == IF c \in UpperChars THEN LowerOf[c] ELSE c

\* the regex class \w (ASCII): letters, digits, underscore
WordChars ==
    {"a","b","c","d","e","f","g","h","i","j","k","l","m","n","o","p","q",
     "r","s","t","u","v","w","x","y","z","0","1","2","3","4","5","6","7",
     "8","9","_"}

IsWordChar(c) == c \in WordChars \/ c \in UpperChars

\* s[i..j] (1-based, inclusive), empty when j < i
Slice(s, i, j) == [k \in 1..(j - i + 1) |-> s[i + k - 1]]

\* str.startswith
StartsWith(s, p) ==
    /\ Len(p) <= Len(s)
    /\ \A k \in 1..Len(p) : s[k] = p[k]

\* the `in` operator on two strings: p occurs in s
Contains(s, p) ==
    \E i \in 1..(Len(s) - Len(p) + 1) :
        \A k \in 1..Len(p) : s[i + k - 1] = p[k]

\* str.strip(): drop leading and trailing whitespace
Strip(s) ==
    LET keep == {i \in 1..Len(s) : ~IsSpace(s[i])}
    IN  IF keep = {} THEN <<>>
        ELSE LET lo == CHOOSE i \in keep : \A j \in keep : i <= j
                 hi == CHOOSE i \in keep : \A j \in keep : j <= i
             IN  Slice(s, lo, hi)

\* str.split(sep) for a one-character separator: the parts between the
\* separators, empty parts kept
Split(s, sep) ==
    LET at == {i \in 1..Len(s) : s[i] = sep}
        \* the position of the k-th separator; 0 and Len(s)+1 bracket them
        pos(k) == IF k = 0 THEN 0
                  ELSE IF k > Cardinality(at) THEN Len(s) + 1
                  ELSE CHOOSE i \in at : Cardinality({j \in at : j < i}) = k - 1
    IN  [k \in 1..(Cardinality(at) + 1) |-> Slice(s, pos(k - 1) + 1, pos(k) - 1)]

\* sep.join(parts[lo..hi])
RECURSIVE JoinRange(_, _, _, _)
JoinRange(parts, sep, lo, hi) ==
    IF lo > hi THEN <<>>
    ELSE IF lo = hi THEN parts[lo]
    ELSE LET mid == (lo + hi) \div 2
         IN  JoinRange(parts, sep, lo, mid) \o sep
                 \o JoinRange(parts, sep, mid + 1, hi)

\* sep.join(parts)
Join(parts, sep) == JoinRange(parts, sep, 1, Len(parts))

(***************************************************************************)
(* Regular expressions: the subset FORBIDDEN_PATTERNS uses.  A pattern is  *)
(* a sequence of elements; re.search tries every start position.           *)
(***************************************************************************)

Lit(c)      == [t |-> "lit", c |-> Lower(c)] \* a literal character, folded
WB          == [t |-> "wb", c |-> ""]       \* \b
SpaceStar   == [t |-> "ws*", c |-> ""]      \* \s*
NotChar(c)  == [t |-> "not", c |-> c]       \* [^c]
NotPlus(c)  == [t |-> "not+", c |-> c]      \* [^c]+

Lits(w) == [i \in 1..Len(w) |-> Lit(w[i])]

\* r"\bverb\b"
Word(w) == <<WB>> \o Lits(w) \o <<WB>>

\* \b at the gap before position i: exactly one side is a word character
Boundary(s, i) ==
    LET before == i > 1 /\ IsWordChar(s[i - 1])
        after  == i <= Len(s) /\ IsWordChar(s[i])
    IN  before # after

\* the pattern from element k on matches s starting at position i
RECURSIVE MatchAt(_, _, _, _)
MatchAt(pat, k, s, i) ==
    IF k > Len(pat) THEN TRUE
    ELSE LET e == pat[k] IN
         CASE e.t = "lit" ->
                /\ i <= Len(s)
                /\ Lower(s[i]) = e.c
                /\ MatchAt(pat, k + 1, s, i + 1)
           [] e.t = "wb" ->
                /\ Boundary(s, i)
                /\ MatchAt(pat, k + 1, s, i)
           [] e.t = "ws*" ->
                \E j \in i..(Len(s) + 1) :
                    /\ \A m \in i..(j - 1) : IsSpace(s[m])
                    /\ MatchAt(pat, k + 1, s, j)
           [] e.t = "not" ->
                /\ i <= Len(s)
                /\ s[i] # e.c
                /\ MatchAt(pat, k + 1, s, i + 1)
           [] e.t = "not+" ->
                \E j \in (i + 1)..(Len(s) + 1) :
                    /\ \A m \in i..(j - 1) : s[m] # e.c
                    /\ MatchAt(pat, k + 1, s, j)

\* re.search(pattern, s, re.IGNORECASE) is not None
Search(pat, s) == \E i \in 1..(Len(s) + 1) : MatchAt(pat, 1, s, i)

(***************************************************************************)
(* CommandValidator: the static rule tables                                *)
(***************************************************************************)

ALLOWED_COMMANDS == {
    <<"l","s">>, <<"c","a","t">>, <<"h","e","a","d">>, <<"t","a","i","l">>,
    <<"g","r","e","p">>, <<"r","g">>, <<"f","i","n","d">>,
    <<"w","c">>, <<"s","o","r","t">>, <<"u","n","i","q">>, <<"a","w","k">>,
    <<"c","u","t">>, <<"t","r">>,
    <<"f","i","l","e">>, <<"s","t","a","t">>, <<"d","u">>,
    <<"t","r","e","e">>, <<"p","w","d">>, <<"l","e","s","s">>,
    <<"m","o","r","e">> }

\* the verbs of FORBIDDEN_PATTERNS, each compiled as r"\bverb\b"
FORBIDDEN_VERBS == <<
    \* File modification
    <<"r","m">>, <<"m","v">>, <<"c","p">>, <<"t","o","u","c","h">>,
    <<"m","k","d","i","r">>, <<"r","m","d","i","r">>,
    \* Permission changes
    <<"c","h","m","o","d">>, <<"c","h","o","w","n">>, <<"c","h","g","r","p">>,
    \* System commands
    <<"d","d">>, <<"m","k","f","s">>, <<"f","d","i","s","k">>,
    <<"m","o","u","n","t">>, <<"u","m","o","u","n","t">>,
    \* Process control
    <<"k","i","l","l">>, <<"p","k","i","l","l">>,
    <<"k","i","l","l","a","l","l">>,
    \* Network operations
    <<"w","g","e","t">>, <<"c","u","r","l">>, <<"s","c","p">>,
    <<"r","s","y","n","c">>,
    \* Package management
    <<"a","p","t">>, <<"a","p","t","-","g","e","t">>, <<"y","u","m">>,
    <<"d","n","f">>, <<"p","i","p">>, <<"n","p","m">>,
    \* Editor commands
    <<"v","i">>, <<"v","i","m">>, <<"n","a","n","o">>,
    <<"e","m","a","c","s">>, <<"e","d">> >>

\* r">\s*[^|]"
PAT_REDIRECT_OUT == <<Lit(">"), SpaceStar, NotChar("|")>>

\* r">>\s*"
PAT_REDIRECT_APPEND == <<Lit(">"), Lit(">"), SpaceStar>>

\* r"<\s*[^<]"
PAT_REDIRECT_IN == <<Lit("<"), SpaceStar, NotChar("<")>>

\* the shell features without the two substitution patterns
PAT_SHELL_FEATURES_NoSubstitution == <<
    <<Lit(";"), SpaceStar>>,
    <<Lit("&"), Lit("&")>> >>

\* r";\s*", r"&&", r"\$\(", r"\${"
PAT_SHELL_FEATURES == <<
    <<Lit(";"), SpaceStar>>,
    <<Lit("&"), Lit("&")>>,
    <<Lit("$"), Lit("(")>>,
    <<Lit("$"), Lit("{")>> >>

\* r"<bq>[^<bq>]+<bq>", <bq> the backquote
PAT_BACKTICKS == <<Lit(Backquote), NotPlus(Backquote), Lit(Backquote)>>

FORBIDDEN_PATTERNS ==
    [i \in 1..Len(FORBIDDEN_VERBS) |-> Word(FORBIDDEN_VERBS[i])]
    \o <<PAT_REDIRECT_OUT, PAT_REDIRECT_APPEND, PAT_REDIRECT_IN>>
    \o PAT_SHELL_FEATURES
    \o <<PAT_BACKTICKS>>

WORKSPACE_DIR ==
    <<"/","w","o","r","k","s","p","a","c","e","/","d","o","c","u","m","e","n","t">>

MAX_COMMAND_LENGTH == 500


(***************************************************************************)
(* shlex.split(s): POSIX mode, whitespace_split, no comment characters.    *)
(* The result is [ok, tokens, err]; ok = FALSE stands for the ValueError   *)
(* shlex raises, err being its message.                                    *)
(***************************************************************************)

ShlexWhitespace == {" ", "\t", "\r", "\n"}
ShlexQuotes == {"'", "\""}
ShlexEscape == "\\"

LexOk(tokens) == [ok |-> TRUE, tokens |-> tokens, err |-> ""]
LexError(msg) == [ok |-> FALSE, tokens |-> <<>>, err |-> msg]

\* the end of a token: it is kept if it is non-empty or was quoted
Emit(out, tok, quoted) ==
    IF tok # <<>> \/ quoted THEN Append(out, tok) ELSE out

\* the lexer between two characters: state is " " (between tokens), "a" (in
\* a word), a quote character (in a quoted run) or the escape character
\* (after a backslash, esc being the state to return to)
LexState(state, esc, tok, quoted, out) ==
    [state |-> state, esc |-> esc, tok |-> tok, quoted |-> quoted, out |-> out]

\* shlex.read_token: one character c read in lexer state x
LexStep(x, c) ==
    CASE x.state = " " ->
            IF c \in ShlexWhitespace
            THEN LexState(" ", x.esc, <<>>, FALSE, x.out)
            ELSE IF c = ShlexEscape
            THEN LexState(ShlexEscape, "a", <<>>, FALSE, x.out)
            ELSE IF c \in ShlexQuotes
            THEN LexState(c, x.esc, <<>>, FALSE, x.out)
            ELSE LexState("a", x.esc, <<c>>, FALSE, x.out)
      [] x.state \in ShlexQuotes ->
            IF c = x.state
            THEN LexState("a", x.esc, x.tok, TRUE, x.out)
            ELSE IF c = ShlexEscape /\ x.state = "\""
            THEN LexState(ShlexEscape, x.state, x.tok, TRUE, x.out)
            ELSE LexState(x.state, x.esc, Append(x.tok, c), TRUE, x.out)
      [] x.state = ShlexEscape ->
            LET kept == IF x.esc \in ShlexQuotes /\ c # ShlexEscape /\ c # x.esc
                        THEN Append(x.tok, ShlexEscape) ELSE x.tok
            IN  LexState(x.esc, x.esc, Append(kept, c), x.quoted, x.out)
      [] x.state = "a" ->
            IF c \in ShlexWhitespace
            THEN LexState(" ", x.esc, <<>>, FALSE, Emit(x.out, x.tok, x.quoted))
            ELSE IF c \in ShlexQuotes
            THEN LexState(c, x.esc, x.tok, x.quoted, x.out)
            ELSE IF c = ShlexEscape
            THEN LexState(ShlexEscape, "a", x.tok, x.quoted, x.out)
            ELSE LexState("a", x.esc, Append(x.tok, c), x.quoted, x.out)

\* the lexer state after reading s[lo..hi] from state x, the characters taken
\* in order (the range is halved so that the evaluation stays shallow)
RECURSIVE LexRun(_, _, _, _)
LexRun(x, s, lo, hi) ==
    IF lo > hi THEN x
    ELSE IF lo = hi THEN LexStep(x, s[lo])
    ELSE LET mid == (lo + hi) \div 2
         IN  CHOOSE r \in { LexRun(y, s, mid + 1, hi) :
                               y \in { LexRun(x, s, lo, mid) } } : TRUE

\* shlex.read_token at the end of the input
LexEnd(x) ==
    CASE x.state = " " -> LexOk(x.out)
      [] x.state = "a" -> LexOk(Emit(x.out, x.tok, x.quoted))
      [] x.state \in ShlexQuotes -> LexError("No closing quotation")
      [] x.state = ShlexEscape -> LexError("No escaped character")

ShlexSplit(s) ==
    LexEnd(LexRun(LexState(" ", "a", <<>>, FALSE, <<>>), s, 1, Len(s)))

(***************************************************************************)
(* The filesystem, as far as Path.resolve() reads it: the symbolic links   *)
(* that exist.  A link is [at, to]: the components of the link's own       *)
(* (canonical) path and of the canonical path it points to.                *)
(***************************************************************************)

\* the components of a path: split on "/", empty components and "." dropped
PathComponents(p) ==
    SelectSeq(Split(p, "/"), LAMBDA c : c # <<>> /\ c # <<".">>)

\* os.path.realpath: walk the components, ".." pops, a component that
\* completes the path of an existing link is replaced by the link's target
RECURSIVE Walk(_, _, _, _)
Walk(comps, i, stack, links) ==
    IF i > Len(comps) THEN stack
    ELSE IF comps[i] = <<".",".">>
    THEN Walk(comps, i + 1,
              IF stack = <<>> THEN <<>> ELSE SubSeq(stack, 1, Len(stack) - 1),
              links)
    ELSE LET next == Append(stack, comps[i])
             hit  == {l \in links : l.at = next}
         IN  Walk(comps, i + 1,
                  IF hit = {} THEN next ELSE (CHOOSE l \in hit : TRUE).to,
                  links)

\* str(Path(p).resolve()) for an absolute p
Resolve(p, links) ==
    <<"/">> \o Join(Walk(PathComponents(p), 1, <<>>, links), <<"/">>)

(***************************************************************************)
(* CommandValidator: the checks                                            *)
(***************************************************************************)

Verdict(allowed, reason, arg) ==
    [allowed |-> allowed, reason |-> reason, arg |-> arg]

\* an exception handler that lets the command through
ParseError_Swallowed(err) == Verdict(TRUE, "Command validated", <<>>)

\* except Exception as e: return False, f"Command parsing error: {str(e)}"
ParseError(err) == Verdict(FALSE, "Command parsing error: " \o err, <<>>)

\* the length check off by one, either way
TooLong_AtLimit(cmdline) == Len(cmdline) >= MAX_COMMAND_LENGTH

TooLong_PastLimit(cmdline) == Len(cmdline) > MAX_COMMAND_LENGTH + 1

\* len(command) > cls.MAX_COMMAND_LENGTH
TooLong(cmdline) == Len(cmdline) > MAX_COMMAND_LENGTH

\* any(re.search(pattern, command, re.IGNORECASE) for pattern in FORBIDDEN_PATTERNS)
MatchesForbidden(cmdline) ==
    \E k \in 1..Len(FORBIDDEN_PATTERNS) : Search(FORBIDDEN_PATTERNS[k], cmdline)

\* an allowlist that a command which is not read-only has slipped into
InAllowlist_WithEcho(cmd) == cmd \in ALLOWED_COMMANDS \cup {<<"e","c","h","o">>}

\* cmd in cls.ALLOWED_COMMANDS
InAllowlist(cmd) == cmd \in ALLOWED_COMMANDS

\* resolved.startswith(cls.WORKSPACE_DIR)
WithinWorkspace(resolved) == StartsWith(resolved, WORKSPACE_DIR)

\* a path check that also consults the filesystem for something other than the
\* canonical path: it refuses every path as long as no link exists
ValidatePath_OnlyWhereLinked(path, links) ==
    IF StartsWith(path, <<"-">>) THEN TRUE
    ELSE IF Contains(path, <<".",".">>) THEN FALSE
    ELSE LET abs_path == IF StartsWith(path, <<"/">>) THEN path
                         ELSE WORKSPACE_DIR \o <<"/">> \o path
         IN  links # {} /\ WithinWorkspace(Resolve(abs_path, links))

\* CommandValidator._validate_path(path, command)
ValidatePath(path, links) ==
    IF StartsWith(path, <<"-">>) THEN TRUE
    ELSE IF Contains(path, <<".",".">>) THEN FALSE
    ELSE LET abs_path == IF StartsWith(path, <<"/">>) THEN path
                         ELSE WORKSPACE_DIR \o <<"/">> \o path
         IN  WithinWorkspace(Resolve(abs_path, links))

\* CommandValidator._validate_find_command(parts)
ValidateFindCommand(parts) ==
    LET forbidden_find_flags ==
            { <<"-","e","x","e","c">>, <<"-","e","x","e","c","d","i","r">>,
              <<"-","o","k">>, <<"-","o","k","d","i","r">>,
              <<"-","d","e","l","e","t","e">> }
    IN  \A k \in 1..Len(parts) : parts[k] \notin forbidden_find_flags

\* CommandValidator._validate_awk_command(parts)
ValidateAwkCommand(parts) ==
    LET awk_script == Join(Tail(parts), <<" ">>)
    IN  /\ ~Contains(awk_script, <<"s","y","s","t","e","m","(">>)
        /\ ~Contains(awk_script, <<"g","e","t","l","i","n","e"," ","<">>)

\* the first argument (index >= 2) that _validate_path refuses, 0 if none
FirstInvalidPath(tokens, links) ==
    LET bad == {k \in 2..Len(tokens) : ~ValidatePath(tokens[k], links)}
    IN  IF bad = {} THEN 0 ELSE CHOOSE k \in bad : \A j \in bad : k <= j

\* validate_command, the body of the loop over the parts of a command that
\* contains "|": the verdict that ends the loop at this part, or allowed when
\* the loop goes on to the next part
ValidatePipePart(raw_part, links) ==
    LET part == Strip(raw_part) IN
    IF part = <<>> THEN Verdict(TRUE, "continue", <<>>)
    ELSE LET lexed == ShlexSplit(part) IN
         IF ~lexed.ok
         THEN ParseError(lexed.err)
         ELSE LET part_tokens == lexed.tokens IN
              IF part_tokens = <<>> THEN Verdict(TRUE, "continue", <<>>)
              ELSE IF ~InAllowlist(part_tokens[1])
              THEN Verdict(FALSE, "Command in pipe is not allowed", part_tokens[1])
              ELSE LET bad == FirstInvalidPath(part_tokens, links) IN
                   IF bad # 0
                   THEN Verdict(FALSE, "Invalid path in pipe", part_tokens[bad])
                   ELSE Verdict(TRUE, "continue", <<>>)

\* validate_command, the loop over pipe_parts: the first part that returns
\* decides, and the command is validated when none does
ValidatePipeParts(pipe_parts, links) ==
    LET stop == {i \in 1..Len(pipe_parts) :
                    ~ValidatePipePart(pipe_parts[i], links).allowed}
    IN  IF stop = {} THEN Verdict(TRUE, "Command validated", <<>>)
        ELSE ValidatePipePart(
                 pipe_parts[CHOOSE i \in stop : \A j \in stop : i <= j], links)

\* validate_command, the branch for a command without "|"
ValidateSingle(cmdline, links) ==
    LET lexed == ShlexSplit(cmdline) IN
    IF ~lexed.ok
    THEN ParseError(lexed.err)
    ELSE LET parts == lexed.tokens IN
         IF parts = <<>> THEN Verdict(FALSE, "Empty command after parsing", <<>>)
         ELSE LET cmd == parts[1]
                  bad == FirstInvalidPath(parts, links)
              IN  IF ~InAllowlist(cmd)
                  THEN Verdict(FALSE, "Command is not allowed. Use only read operations.", cmd)
                  ELSE IF bad # 0
                  THEN Verdict(FALSE, "Invalid or forbidden path", parts[bad])
                  ELSE IF cmd = <<"f","i","n","d">> /\ ~ValidateFindCommand(parts)
                  THEN Verdict(FALSE, "Find command contains forbidden operations", <<>>)
                  ELSE IF cmd = <<"a","w","k">> /\ ~ValidateAwkCommand(parts)
                  THEN Verdict(FALSE, "Awk command contains forbidden operations", <<>>)
                  ELSE Verdict(TRUE, "Command validated", <<>>)

\* CommandValidator.validate_command(command), the filesystem being links
ValidateCommand(raw, links) ==
    IF raw = <<>> THEN Verdict(FALSE, "Empty command", <<>>)
    ELSE LET cmdline == Strip(raw) IN
         IF TooLong(cmdline)
         THEN Verdict(FALSE, "Command too long (max 500 chars)", <<>>)
         ELSE IF MatchesForbidden(cmdline)
         THEN Verdict(FALSE, "Forbidden operation detected", <<>>)
         ELSE IF Contains(cmdline, <<"|">>)
         THEN ValidatePipeParts(Split(cmdline, "|"), links)
         ELSE ValidateSingle(cmdline, links)


(***************************************************************************)
(* The commands the agents are given.  A command is a run of chunks        *)
(* joined by single spaces: a leading chunk, an argument chunk, and further*)
(* chunks; to these are added the commands of backend/test_security.py,    *)
(* commands around the length limit, and a few longer pipes.               *)
(***************************************************************************)

\* the most chunks a generated command is made of
MaxWords == 3

LeadWords == {
    <<>>,
    <<"l","s">>,
    <<"f","i","n","d">>,
    <<"a","w","k">>,
    <<"e","c","h","o">>,
    <<"r","m">>,
    <<"|">> }

ArgWords == {
    <<>>,
    <<"-","l","a">>,
    <<".">>,
    <<"a",".","t","x","t">>,
    <<".",".","/","a">>,
    <<"/","e","t","c">>,
    <<"/","w","o","r","k","s","p","a","c","e","/","d","o","c","u","m","e","n","t","2">>,
    <<"l","n","k">>,
    <<"-","d","e","l","e","t","e">>,
    <<"s","y","s","t","e","m","(">>,
    <<"g","e","t","l","i","n","e">>,
    <<"|">>,
    <<">">>,
    <<">",">">>,
    <<">","|","f","i","l","e">>,
    <<"<">>,
    <<";">>,
    <<"&","&">>,
    <<Backquote>>,
    <<Backquote,"i","d",Backquote>>,
    <<"$","(","i","d",")">>,
    <<"$","{","x","}">>,
    <<"r","m">>,
    <<"f","a","r","m">>,
    <<"R","M">>,
    <<"'">>,
    <<"-","f","/","e","t","c">>,
    <<"~">>,
    <<"$","H","O","M","E">>,
    <<"\\">> }

MoreWords == {
    <<"|">>,
    <<"l","s">>,
    <<"e","c","h","o">>,
    <<"/","e","t","c">>,
    <<"<">> }

\* the chunk sequences of exactly n chunks
RECURSIVE WordSeqs(_)
WordSeqs(n) ==
    IF n = 1 THEN {<<w>> : w \in LeadWords}
    ELSE IF n = 2 THEN {<<w, a>> : w \in LeadWords, a \in ArgWords}
    ELSE {Append(ws, m) : ws \in WordSeqs(n - 1), m \in MoreWords}

GeneratedCommands ==
    UNION { {Join(ws, <<" ">>) : ws \in WordSeqs(n)} : n \in 1..MaxWords }

\* backend/test_security.py, test_cases (the 1000-character one is in
\* LengthCommands)
TestCommands == {
    <<"l","s"," ","-","l","a">>,
    <<"c","a","t"," ","s","a","m","p","l","e",".","t","x","t">>,
    <<"g","r","e","p"," ","-","r"," ","'","p","a","t","t","e","r","n","'"," ",".">>,
    <<"f","i","n","d"," ","."," ","-","n","a","m","e"," ","'","*",".","t","x","t","'">>,
    <<"h","e","a","d"," ","-","n"," ","1","0"," ","f","i","l","e",".","l","o","g">>,
    <<"t","a","i","l"," ","-","f"," ","a","c","c","e","s","s",".","l","o","g">>,
    <<"a","w","k"," ","'","{","p","r","i","n","t"," ","$","1","}","'"," ","d","a","t","a",".","c","s","v">>,
    <<"s","o","r","t"," ","n","a","m","e","s",".","t","x","t"," ","|"," ","u","n","i","q">>,
    <<"r","m"," ","f","i","l","e",".","t","x","t">>,
    <<"r","m"," ","-","r","f"," ","/">>,
    <<"t","o","u","c","h"," ","n","e","w","f","i","l","e",".","t","x","t">>,
    <<"e","c","h","o"," ","'","d","a","t","a","'"," ",">"," ","f","i","l","e",".","t","x","t">>,
    <<"c","a","t"," ","f","i","l","e",".","t","x","t"," ",">"," ","c","o","p","y",".","t","x","t">>,
    <<"s","e","d"," ","-","i"," ","'","s","/","o","l","d","/","n","e","w","/","'"," ","f","i","l","e",".","t","x","t">>,
    <<"c","a","t"," ",".",".","/",".",".","/",".",".","/","e","t","c","/","p","a","s","s","w","d">>,
    <<"l","s"," ","/","e","t","c","/">>,
    <<"f","i","n","d"," ","/","h","o","m","e"," ","-","n","a","m","e"," ","s","e","c","r","e","t">>,
    <<"l","s",";"," ","r","m"," ","-","r","f"," ","/">>,
    <<"c","a","t"," ",Backquote,"w","h","o","a","m","i",Backquote>>,
    <<"g","r","e","p"," ","p","a","t","t","e","r","n"," ","$","(","l","s",")">>,
    <<"l","s"," ","&","&"," ","e","c","h","o"," ","d","o","n","e">>,
    <<"f","i","n","d"," ","."," ","-","e","x","e","c"," ","r","m"," ","{","}"," ","\\",";">>,
    <<"f","i","n","d"," ","."," ","-","d","e","l","e","t","e">>,
    <<"w","g","e","t"," ","h","t","t","p",":","/","/","e","v","i","l",".","c","o","m","/","m","a","l","w","a","r","e">>,
    <<"c","u","r","l"," ","-","X"," ","P","O","S","T"," ","h","t","t","p",":","/","/","a","p","i",".","c","o","m">>,
    <<>>,
    <<" ">>, <<" "," "," ">> }

\* "ls " followed by a's, n characters in all
Padded(n) == <<"l","s"," ">> \o [i \in 1..(n - 3) |-> "a"]

\* commands at, just over and far over MAX_COMMAND_LENGTH; the third is longer
\* than the limit only by the whitespace around it; the last is the test
\* suite's "a" * 1000
LengthCommands == {
    Padded(MAX_COMMAND_LENGTH),
    Padded(MAX_COMMAND_LENGTH + 1),
    <<" ">> \o Padded(MAX_COMMAND_LENGTH) \o <<" ">>,
    [i \in 1..(2 * MAX_COMMAND_LENGTH) |-> "a"] }

\* pipes of more chunks than MaxWords
PipeCommands == {
    <<"f","i","n","d"," ","."," ","-","d","e","l","e","t","e"," ","|"," ","c","a","t">>,
    <<"l","s"," ","|"," ","c","a","t"," ","/","e","t","c","/","p","a","s","s","w","d">>,
    <<"l","s"," ","|","|"," ","c","a","t"," ","n","o","t","e","s",".","t","x","t">>,
    <<"l","s"," ","|"," ","g","r","e","p"," ","a"," ","|"," ","r","m"," ","x">> }

Commands ==
    GeneratedCommands \cup TestCommands \cup LengthCommands \cup PipeCommands

\* the symbolic links that may exist under the workspace:
\* /workspace/document/lnk -> /etc
PossibleLinks == {
    [at |-> << <<"w","o","r","k","s","p","a","c","e">>,
               <<"d","o","c","u","m","e","n","t">>, <<"l","n","k">> >>,
     to |-> << <<"e","t","c">> >>] }

(***************************************************************************)
(* What an executor returns.  The streams of the subprocess are given by   *)
(* their lengths and by whether their text holds the word "Error", which   *)
(* is what the callers of _run_shell_command look for.                     *)
(***************************************************************************)

\* SmartSearchAgent.__init__
max_cache_size == 50

max_cache_content_size == 10000

search_cache_ttl == 300

\* len("\n... (output truncated)")
TRUNCATION_MARKER_LEN == 23

\* len("✓ Command executed successfully (no output)")
NO_OUTPUT_LEN == 43

\* len("❌ Command failed:\n")
COMMAND_FAILED_LEN == 18

\* len("❌ Error: Command timeout (60 seconds)")
TIMEOUT_LEN == 37

\* len("❌ Error executing command: ")
EXEC_ERROR_LEN == 27

\* len("❌ Security Error: ")
SECURITY_ERROR_LEN == 18

\* GeminiCLIAgent._execute_command: len("Command failed: "),
\* len("Command executed successfully (no output)"),
\* len("Command timeout (30 seconds)"), len("Error executing command: ")
CLI_COMMAND_FAILED_LEN == 16

CLI_NO_OUTPUT_LEN == 41

CLI_TIMEOUT_LEN == 28

CLI_EXEC_ERROR_LEN == 25

\* the length of the message validate_command returns with a verdict
ReasonLen(v) ==
    CASE v.reason = "Empty command" -> 13
      [] v.reason = "Command too long (max 500 chars)" -> 32
      [] v.reason = "Forbidden operation detected" -> 28
      [] v.reason = "Command in pipe is not allowed" -> 33 + Len(v.arg)
      [] v.reason = "Invalid path in pipe" -> 22 + Len(v.arg)
      [] v.reason = "Empty command after parsing" -> 27
      [] v.reason = "Command is not allowed. Use only read operations."
             -> 52 + Len(v.arg)
      [] v.reason = "Invalid or forbidden path" -> 27 + Len(v.arg)
      [] v.reason = "Find command contains forbidden operations" -> 42
      [] v.reason = "Awk command contains forbidden operations" -> 41
      [] v.reason = "Command validated" -> 17
      [] OTHER -> 43

\* SecurityLogger.log_command_attempt and log_command_result: the record sent
AttemptRecord(v) ==
    [event |-> "command_attempt", validated |-> v.allowed, reason |-> v.reason]

ResultRecord(success, output_size) ==
    [event |-> "command_result", success |-> success, output_size |-> output_size]

\* what an executor hands back: the kind of text, the number of characters
\* captured from stdout, the length of the returned text, whether it ends with
\* the truncation marker, whether it holds the word "Error", the result
\* records sent to the audit logger on the way, and the state the subprocess
\* is left in
ShellReturn(kind, captured, len, marked, has_error, logged, proc_state) ==
    [kind |-> kind, captured |-> captured, len |-> len, marked |-> marked,
     has_error |-> has_error, logged |-> logged, proc |-> proc_state]

NoReturn == ShellReturn("none", 0, 0, FALSE, FALSE, <<>>, "none")

\* _run_shell_command: return f"❌ Security Error: {message}"
SecurityErrorReturn(v) ==
    ShellReturn("security_error", 0, SECURITY_ERROR_LEN + ReasonLen(v), FALSE,
                TRUE, <<>>, "none")

\* _run_shell_command: output = stdout.decode(); if len(output) > cap:
\* output = output[:cap] + "\n... (output truncated)"; the length of output
OutputLen(n) ==
    IF n > max_cache_content_size
    THEN max_cache_content_size + TRUNCATION_MARKER_LEN
    ELSE n

\* _run_shell_command, exit status 0: n characters on stdout, holding "Error"
\* or not
SuccessReturn(n, has_error) ==
    ShellReturn(IF n = 0 THEN "no_output" ELSE "output", n,
                IF n = 0 THEN NO_OUTPUT_LEN ELSE OutputLen(n),
                n > max_cache_content_size, has_error,
                <<ResultRecord(TRUE, OutputLen(n))>>, "exited")

\* _run_shell_command, exit status not 0: the result is logged, then stderr
\* (m characters) is decoded into the returned text
FailureReturn(n, m, has_error) ==
    ShellReturn("command_failed", n, COMMAND_FAILED_LEN + m, FALSE, has_error,
                <<ResultRecord(FALSE, OutputLen(n))>>, "exited")

\* _run_shell_command, exit status not 0 and stderr is not UTF-8: the result
\* is logged, stderr.decode() raises, and `except Exception` logs a result
\* again
FailureUndecodableReturn(n, e_len) ==
    ShellReturn("error", n, EXEC_ERROR_LEN + e_len, FALSE, TRUE,
                <<ResultRecord(FALSE, OutputLen(n)), ResultRecord(FALSE, 0)>>,
                "exited")

\* _run_shell_command: asyncio.wait_for raises TimeoutError; proc.communicate()
\* is cancelled and nothing stops the subprocess
TimeoutReturn ==
    ShellReturn("timeout", 0, TIMEOUT_LEN, FALSE, TRUE,
                <<ResultRecord(FALSE, 0)>>, "running")

\* _run_shell_command: create_subprocess_shell raised (no subprocess), or
\* stdout.decode() raised (the subprocess has ended)
ExecErrorReturn(e_len, proc_state) ==
    ShellReturn("error", 0, EXEC_ERROR_LEN + e_len, FALSE, TRUE,
                <<ResultRecord(FALSE, 0)>>, proc_state)

\* GeminiCLIAgent._execute_command: nothing is truncated and nothing is logged
CliSuccessReturn(n, has_error) ==
    ShellReturn(IF n = 0 THEN "no_output" ELSE "output", n,
                IF n = 0 THEN CLI_NO_OUTPUT_LEN ELSE n, FALSE, has_error,
                <<>>, "exited")

CliFailureReturn(m, has_error) ==
    ShellReturn("command_failed", 0, CLI_COMMAND_FAILED_LEN + m, FALSE,
                has_error, <<>>, "exited")

CliTimeoutReturn ==
    ShellReturn("timeout", 0, CLI_TIMEOUT_LEN, FALSE, FALSE, <<>>, "running")

CliExecErrorReturn(e_len, proc_state) ==
    ShellReturn("error", 0, CLI_EXEC_ERROR_LEN + e_len, FALSE, TRUE, <<>>,
                proc_state)

\* the streams a subprocess may leave: <<characters, holds "Error">>
StreamSamples ==
    { <<0, FALSE>>, <<8, FALSE>>, <<8, TRUE>>,
      <<max_cache_content_size, FALSE>>,
      <<max_cache_content_size + 1, FALSE>>,
      <<max_cache_content_size + 1, TRUE>> }

\* the length of the text of the exception an executor reports
ErrorTextLengths == {40}

\* everything _run_shell_command may return once the shell was asked for
RunShellCommandReturns ==
    { SuccessReturn(s[1], s[2]) : s \in StreamSamples }
        \cup { FailureReturn(0, s[1], s[2]) : s \in StreamSamples }
        \cup { FailureUndecodableReturn(0, e) : e \in ErrorTextLengths }
        \cup { TimeoutReturn }
        \cup { ExecErrorReturn(e, p) :
                   e \in ErrorTextLengths, p \in {"none", "exited"} }

\* everything _execute_command may return
ExecuteCommandReturns ==
    { CliSuccessReturn(s[1], s[2]) : s \in StreamSamples }
        \cup { CliFailureReturn(s[1], s[2]) : s \in StreamSamples }
        \cup { CliTimeoutReturn }
        \cup { CliExecErrorReturn(e, p) :
                   e \in ErrorTextLengths, p \in {"none", "exited"} }

(***************************************************************************)
(* The state.  An executor call on one command: the agent, the verdict,    *)
(* the subprocess, what was sent to the audit logger and what was          *)
(* returned.  A SmartSearchAgent session: its caches, its counters, the    *)
(* clock and the strategies it has been given.                             *)
(***************************************************************************)

VARIABLES
    command,    \* the command string the agent is about to run
    symlinks,   \* the filesystem: the symbolic links that exist
    caller,     \* the agent that took the command, "none" before
    pc,         \* "idle", "running" (subprocess spawned, awaited) or "returned"
    verdict,    \* what validate_command returned for command
    validated,  \* the strings validate_command returned allowed for
    spawned,    \* the strings passed to asyncio.create_subprocess_shell
    outcome,    \* how the executor returned
    proc,       \* the subprocess: "none", "running" or "exited"
    audit,      \* the records sent to security_logger, in order
    returned,   \* what the executor returned
    context_cache,        \* SmartSearchAgent.context_cache, oldest entry first
    search_cache,         \* SmartSearchAgent.search_cache
    performance_metrics,  \* SmartSearchAgent.performance_metrics
    now,                  \* time.time(), in seconds since the session began
    tasks,                \* the strategies issued in the session, in order
    query,                \* the process_query call of the session
    cli                   \* the process_command call of a GeminiCLIAgent

executorVars ==
    <<command, symlinks, caller, pc, verdict, validated, spawned, outcome,
      proc, audit, returned>>

sessionVars ==
    <<context_cache, search_cache, performance_metrics, now, tasks, query,
      cli>>

vars == <<executorVars, sessionVars>>

NoVerdict == Verdict(FALSE, "none", <<>>)

\* no process_query call has been made: file_structure tells whether
\* self.file_structure is set, the other fields are those of a call:
\* where it is, its query, the plan as the planner returned it, the plan
\* (search_strategies, which process_query sorts in place), the calls the
\* planner and the synthesis made to the language-model service, the
\* messages it has yielded, whether _init_file_structure is still running,
\* where the planner is, what kind of answer the model gave it, and where a
\* fault that ended the call was raised
NoQuery(file_structure) ==
    [pc |-> "idle", text |-> <<>>, planned |-> <<>>, plan |-> <<>>,
     calls |-> <<>>,
     emitted |-> <<>>, init_pending |-> FALSE, planner |-> "none",
     answer |-> "none", raised_in |-> "none",
     file_structure |-> file_structure]

\* no process_command call has been made: the fields are those of a call:
\* where it is, the commands extracted from the model's response, the turn
\* of `for cmd in commands`, result["commands_executed"] with the turn that
\* appended each entry, result["outputs"] (each output with the turn that
\* appended it), and the pairs interactive_session has printed
NoCommandCall ==
    [pc |-> "idle", commands |-> <<>>, turn |-> 0,
     commands_executed |-> <<>>, executed_at |-> <<>>, outputs |-> <<>>,
     displayed |-> <<>>]

\* SmartSearchAgent.__init__
AgentConstructed ==
    /\ context_cache = <<>>
    /\ search_cache = {}
    /\ performance_metrics =
           [llm_calls |-> 0, shell_commands |-> 0, cache_hits |-> 0,
            cache_misses |-> 0]
    /\ now = 0
    /\ tasks = <<>>
    /\ query = NoQuery(FALSE)
    /\ cli = NoCommandCall

\* no executor has been called
ExecutorIdle ==
    /\ caller = "none"
    /\ pc = "idle"
    /\ verdict = NoVerdict
    /\ validated = {}
    /\ spawned = {}
    /\ outcome = "none"
    /\ proc = "none"
    /\ audit = <<>>
    /\ returned = NoReturn

Init ==
    /\ command \in Commands
    /\ symlinks \in SUBSET PossibleLinks
    /\ ExecutorIdle
    /\ AgentConstructed

\* the executor without its early return
RunShellCommandSpawns_Unchecked(v) == TRUE

\* SmartSearchAgent._run_shell_command: `if not is_valid: return ...`
RunShellCommandSpawns(v) == v.allowed

\* GeminiCLIAgent.process_command: `if is_valid: ... _execute_command(cmd)`
ProcessCommandExecutes(v) == v.allowed

\* SmartSearchAgent._run_shell_command(command) up to its first await:
\* validate, log the attempt, return the security error or spawn the shell
RunShellCommand ==
    /\ pc = "idle"
    /\ \E v \in {ValidateCommand(command, symlinks)} :
        /\ caller' = "SmartSearchAgent"
        /\ verdict' = v
        /\ validated' = IF v.allowed THEN validated \cup {command} ELSE validated
        /\ audit' = Append(audit, AttemptRecord(v))
        /\ IF RunShellCommandSpawns(v)
           THEN /\ spawned' = spawned \cup {command}
                /\ pc' = "running"
                /\ proc' = "running"
                /\ UNCHANGED <<outcome, returned>>
           ELSE /\ pc' = "returned"
                /\ outcome' = "security_error"
                /\ returned' = SecurityErrorReturn(v)
                /\ UNCHANGED <<spawned, proc>>
    /\ UNCHANGED <<command, symlinks>>
    /\ UNCHANGED sessionVars

\* SmartSearchAgent._run_shell_command after the spawn: the subprocess ends
\* with exit status 0 or not, the 60 s wait times out, or something raised
RunShellCommandComplete ==
    /\ pc = "running"
    /\ caller = "SmartSearchAgent"
    /\ \E r \in RunShellCommandReturns :
        /\ returned' = r
        /\ outcome' = r.kind
        /\ audit' = audit \o r.logged
        /\ proc' = r.proc
    /\ pc' = "returned"
    /\ UNCHANGED <<command, symlinks, caller, verdict, validated, spawned>>
    /\ UNCHANGED sessionVars

\* GeminiCLIAgent.process_command, one turn of `for cmd in commands` up to the
\* await in _execute_command: validate, log the attempt, then spawn the shell
\* or append the security error to the outputs
ProcessCommand ==
    /\ pc = "idle"
    /\ \E v \in {ValidateCommand(command, symlinks)} :
        /\ caller' = "GeminiCLIAgent"
        /\ verdict' = v
        /\ validated' = IF v.allowed THEN validated \cup {command} ELSE validated
        /\ audit' = Append(audit, AttemptRecord(v))
        /\ IF ProcessCommandExecutes(v)
           THEN /\ spawned' = spawned \cup {command}
                /\ pc' = "running"
                /\ proc' = "running"
                /\ UNCHANGED <<outcome, returned>>
           ELSE /\ pc' = "returned"
                /\ outcome' = "security_error"
                /\ returned' = SecurityErrorReturn(v)
                /\ UNCHANGED <<spawned, proc>>
    /\ UNCHANGED <<command, symlinks>>
    /\ UNCHANGED sessionVars

\* GeminiCLIAgent._execute_command after the spawn
ExecuteCommandComplete ==
    /\ pc = "running"
    /\ caller = "GeminiCLIAgent"
    /\ \E r \in ExecuteCommandReturns :
        /\ returned' = r
        /\ outcome' = r.kind
        /\ audit' = audit \o r.logged
        /\ proc' = r.proc
    /\ pc' = "returned"
    /\ UNCHANGED <<command, symlinks, caller, verdict, validated, spawned>>
    /\ UNCHANGED sessionVars

\* a subprocess that outlived its executor's call ends by itself
SubprocessExits ==
    /\ pc = "returned"
    /\ proc = "running"
    /\ proc' = "exited"
    /\ UNCHANGED <<command, symlinks, caller, pc, verdict, validated, spawned,
                   outcome, audit, returned>>
    /\ UNCHANGED sessionVars

Next ==
    \/ RunShellCommand
    \/ RunShellCommandComplete
    \/ ProcessCommand
    \/ ExecuteCommandComplete
    \/ SubprocessExits

Spec == Init /\ [][Next]_vars

(***************************************************************************)
(* A SmartSearchAgent session.  Strategies are issued one after another;   *)
(* keyword and feature searches of one plan run together, each up to its   *)
(* next await, and a deep content analysis runs alone.  Files are numbered:*)
(* file n is the path fn.md under the workspace.                           *)
(***************************************************************************)

\* the strategies issued in one session
MaxIssues == 2

\* the clock steps of a session
MaxTicks == 2

\* the clock moves in steps of half the time a search result stays fresh
TickSeconds == search_cache_ttl \div 2

\* the characters of the keywords, in code-point order (the order of sorted())
AsciiOrder == <<"2", ":", "A", "a", "i", "m", "r">>

CodePoint(c) == CHOOSE i \in 1..Len(AsciiOrder) : AsciiOrder[i] = c

\* x < y for str
StrLess(x, y) ==
    \E k \in 1..(Len(y)) :
        /\ \A j \in 1..(k - 1) : j <= Len(x) /\ x[j] = y[j]
        /\ \/ k = Len(x) + 1
           \/ k <= Len(x) /\ CodePoint(x[k]) < CodePoint(y[k])

\* sorted(keywords)
RECURSIVE Sorted(_)
Sorted(keywords) ==
    IF keywords = <<>> THEN <<>>
    ELSE LET least == CHOOSE i \in 1..Len(keywords) :
                          \A j \in 1..Len(keywords) :
                              ~StrLess(keywords[j], keywords[i])
         IN  <<keywords[least]>>
                 \o Sorted([k \in 1..(Len(keywords) - 1) |->
                               IF k < least THEN keywords[k]
                               ELSE keywords[k + 1]])

\* f"keyword_search:{':'.join(sorted(keywords))}" and
\* f"feature_search:{':'.join(sorted(keywords))}"
CacheKey(type, keywords) ==
    (IF type = "keyword_search"
     THEN <<"k","e","y","w","o","r","d","_","s","e","a","r","c","h",":">>
     ELSE <<"f","e","a","t","u","r","e","_","s","e","a","r","c","h",":">>)
        \o Join(Sorted(keywords), <<":">>)

\* keywords[:3]
FirstThree(keywords) ==
    [k \in 1..(IF Len(keywords) < 3 THEN Len(keywords) ELSE 3) |-> keywords[k]]

\* _keyword_search_parallel: find_cmd
find_cmd ==
    <<"f","i","n","d"," ","."," ","-","t","y","p","e"," ","f"," ","\\","(",
      " ","-","n","a","m","e"," ","'","*",".","m","d","'"," ","-","o"," ",
      "-","n","a","m","e"," ","'","*",".","t","x","t","'"," ","-","o"," ",
      "-","n","a","m","e"," ","'","*",".","r","s","t","'"," ","\\",")"," ",
      "|"," ","g","r","e","p"," ","-","v"," ","'","_","b","u","i","l","d",
      "'"," ","|"," ","h","e","a","d"," ","-","5","0">>

\* _keyword_search_parallel: f"grep -r -i -n '{keyword}' . --include='*.md'
\* --include='*.txt' | head -20"
KeywordGrepCmd(keyword) ==
    <<"g","r","e","p"," ","-","r"," ","-","i"," ","-","n"," ","'">>
        \o keyword \o
    <<"'"," ","."," ","-","-","i","n","c","l","u","d","e","=","'","*",".",
      "m","d","'"," ","-","-","i","n","c","l","u","d","e","=","'","*",".",
      "t","x","t","'"," ","|"," ","h","e","a","d"," ","-","2","0">>

\* _specific_feature_search_parallel: f"grep -r {flag}'{keyword}' .
\* --include='*.md' --include='*.txt' | head -30", flag being "" or "-i "
FeatureGrepCmd(keyword, case_sensitive) ==
    <<"g","r","e","p"," ","-","r"," ">>
        \o (IF case_sensitive THEN <<>> ELSE <<"-","i"," ">>)
        \o <<"'">> \o keyword \o
    <<"'"," ","."," ","-","-","i","n","c","l","u","d","e","=","'","*",".",
      "m","d","'"," ","-","-","i","n","c","l","u","d","e","=","'","*",".",
      "t","x","t","'"," ","|"," ","h","e","a","d"," ","-","3","0">>

\* str(n) for a file number
RECURSIVE Digits(_)
Digits(n) ==
    IF n < 10 THEN <<<<"0","1","2","3","4","5","6","7","8","9">>[n + 1]>>
    ELSE Digits(n \div 10) \o Digits(n % 10)

\* the path of file n
PathOf(n) == <<"f">> \o Digits(n) \o <<".","m","d">>

\* f"cat {file_path}"
CatCmd(n) == <<"c","a","t"," ">> \o PathOf(n)

\* _explore_files: f"find . -name '{pattern}' -type f | grep -v '_build' | sort"
ExploreFindCmd(pattern) ==
    <<"f","i","n","d"," ","."," ","-","n","a","m","e"," ","'">> \o pattern
        \o <<"'"," ","-","t","y","p","e"," ","f"," ","|"," ","g","r","e","p",
             " ","-","v"," ","'","_","b","u","i","l","d","'"," ","|"," ",
             "s","o","r","t">>

\* _explore_files: f"head -20 {file_path}"
HeadCmd(file_path) == <<"h","e","a","d"," ","-","2","0"," ">> \o file_path

\* the line find prints for a file of the documentation
ListedPath(n) == <<".","/">> \o PathOf(n)

\* the cross mark (U+274C) the executor starts its error texts with
CrossMark == "CROSSMARK"

\* the text _run_shell_command returns for a timeout:
\* "<cross mark> Error: Command timeout (60 seconds)"
TIMEOUT_TEXT ==
    <<CrossMark," ","E","r","r","o","r",":"," ","C","o","m","m","a","n","d"," ",
      "t","i","m","e","o","u","t"," ","(","6","0"," ","s","e","c","o","n",
      "d","s",")">>

\* the keyword lists and file lists the planner may put into a strategy
\* a keyword that is not a string (the model's JSON may hold a number there)
NonString == <<"int">>

KeywordLists ==
    { << <<"A","2">> >>, << <<"r","m">>, <<"A","2">> >>,
      << <<"A","2",":","r","m">> >>, <<NonString>> }

\* ':'.join(sorted(keywords)) raises TypeError
Unjoinable(keywords) == \E k \in 1..Len(keywords) : keywords[k] = NonString

DeepFileLists == { <<1, max_cache_size + 2>> }

SearchTypes == {"keyword_search", "specific_feature"}

Strategies ==
    { [type |-> "keyword_search", keywords |-> k, files |-> <<>>] :
          k \in KeywordLists }
        \cup { [type |-> "specific_feature", keywords |-> << <<"A","2">> >>,
                files |-> <<>>] }
        \cup { [type |-> "deep_content_analysis", keywords |-> <<>>,
                files |-> f] : f \in DeepFileLists }

\* the files a search output may name, in the order the set of matches is
\* listed
MatchSamples == { <<>>, <<1, max_cache_size + 1>> }

\* the files earlier queries of the session have read into the content cache
EarlierReads == {0, max_cache_size}

\* the commands a session runs, with the verdict validate_command gives each
SessionCommands ==
    {find_cmd}
        \cup UNION { { KeywordGrepCmd(k[i]) : i \in 1..Len(k) } :
                      k \in {l \in KeywordLists : ~Unjoinable(l)} }
        \cup { FeatureGrepCmd(k, b) :
                   k \in { <<"A","2">>, <<"a","2">>, <<"a","i">> },
                   b \in BOOLEAN }
        \cup { CatCmd(n) : n \in {1, max_cache_size + 1, max_cache_size + 2} }
        \cup { ExploreFindCmd(<<"*",".","m","d">>), HeadCmd(ListedPath(1)),
               HeadCmd(TIMEOUT_TEXT) }

SessionVerdicts == { <<c, ValidateCommand(c, {})>> : c \in SessionCommands }

VerdictOf(cmd) ==
    IF cmd \in SessionCommands
    THEN (CHOOSE p \in SessionVerdicts : p[1] = cmd)[2]
    ELSE ValidateCommand(cmd, {})

\* what _run_shell_command may return for a command of the session
SessionReturns ==
    { TimeoutReturn, SuccessReturn(max_cache_content_size + 1, FALSE) }

ReturnsOf(cmd) ==
    IF VerdictOf(cmd).allowed THEN SessionReturns
    ELSE {SecurityErrorReturn(VerdictOf(cmd))}

\* what _run_shell_command may return for the cat of a file: the file may
\* also be missing, cat then exits with status 1 and a message on stderr
ReadReturns ==
    SessionReturns \cup {FailureReturn(0, n, FALSE) : n \in ErrorTextLengths}

ReadReturnsOf(cmd) ==
    IF VerdictOf(cmd).allowed THEN ReadReturns
    ELSE {SecurityErrorReturn(VerdictOf(cmd))}

\* how many of the commands reach create_subprocess_shell
SpawnsOf(cmds) ==
    Cardinality({k \in 1..Len(cmds) : VerdictOf(cmds[k]).allowed})

\* `content and "Error" not in content`
Usable(r) == r.len > 0 /\ ~r.has_error

\* {"type": "command", "content": f"$ {cmd}"}
CommandEvent(cmd) == [type |-> "command", text |-> cmd, len |-> 2 + Len(cmd)]

\* {"type": "result", "content": output[:limit] + "..." if len(output) > limit
\* else output}
ResultEvent(r, limit) ==
    [type |-> "result", text |-> <<>>,
     len |-> IF r.len > limit THEN limit + 3 ELSE r.len]

\* file_path in self.context_cache
InCache(cache, path) == \E i \in 1..Len(cache) : cache[i].path = path

\* self.context_cache[file_path] = content
Assign(cache, path, len) ==
    IF InCache(cache, path)
    THEN [i \in 1..Len(cache) |->
             IF cache[i].path = path THEN [path |-> path, len |-> len]
             ELSE cache[i]]
    ELSE Append(cache, [path |-> path, len |-> len])

\* a cache that drops its newest entry
AddToCache_EvictsNewest(cache, path, len) ==
    LET content == IF len > max_cache_content_size
                   THEN max_cache_content_size ELSE len
        kept == IF Len(cache) >= max_cache_size
                THEN SubSeq(cache, 1, Len(cache) - 1) ELSE cache
    IN  Assign(kept, path, content)

\* SmartSearchAgent._add_to_cache(file_path, content)
AddToCache(cache, path, len) ==
    LET content == IF len > max_cache_content_size
                   THEN max_cache_content_size ELSE len
        kept == IF Len(cache) >= max_cache_size THEN Tail(cache) ELSE cache
    IN  Assign(kept, path, content)

\* _read_files_batch: for result in read_results: ... self._add_to_cache(...)
RECURSIVE AddAllToCache(_, _, _)
AddAllToCache(cache, files, rets) ==
    IF files = <<>> THEN cache
    ELSE AddAllToCache(IF Usable(rets[1])
                       THEN AddToCache(cache, files[1], rets[1].len)
                       ELSE cache,
                       Tail(files), Tail(rets))

\* a search cache that still replays an entry at the very end of its time
CacheFresh_AtTtl(entry, t) == t - entry.timestamp <= search_cache_ttl

\* a search cache that forgets after half the time
CacheFresh_HalfTime(entry, t) == t - entry.timestamp < TickSeconds

\* time.time() - cache_entry['timestamp'] < self.search_cache_ttl
CacheFresh(entry, t) == t - entry.timestamp < search_cache_ttl

\* self.search_cache[cache_key] = {'timestamp': time.time(), 'results': ...}
StoreSearch(cache, key, t, results) ==
    {e \in cache : e.key # key}
        \cup {[key |-> key, timestamp |-> t, results |-> results]}

\* xs[:n]
Take(xs, n) == [k \in 1..(IF Len(xs) < n THEN Len(xs) ELSE n) |-> xs[k]]

\* a feature search that only runs the case-sensitive search of each keyword
RECURSIVE FeatureGrepCmds_CaseSensitiveOnly(_)
FeatureGrepCmds_CaseSensitiveOnly(keywords) ==
    IF keywords = <<>> THEN <<>>
    ELSE <<FeatureGrepCmd(keywords[1], TRUE)>>
             \o FeatureGrepCmds_CaseSensitiveOnly(Tail(keywords))

\* the search commands of a strategy: one grep per keyword for a keyword
\* search, a case-sensitive and a case-insensitive one for a feature search
RECURSIVE FeatureGrepCmds(_)
FeatureGrepCmds(keywords) ==
    IF keywords = <<>> THEN <<>>
    ELSE <<FeatureGrepCmd(keywords[1], TRUE), FeatureGrepCmd(keywords[1], FALSE)>>
             \o FeatureGrepCmds(Tail(keywords))

SearchCmds(strategy) ==
    IF strategy.type = "keyword_search"
    THEN [k \in 1..Len(FirstThree(strategy.keywords)) |->
             KeywordGrepCmd(strategy.keywords[k])]
    ELSE FeatureGrepCmds(FirstThree(strategy.keywords))

\* a search output is shown: for a keyword search `result[1] and "Error" not
\* in result[1]`, for a feature search also len(result[2].strip()) > 10
Shown(type, r) ==
    /\ Usable(r)
    /\ type = "specific_feature" => r.len > 10

\* the events of the search outputs that are shown, in the order of the
\* commands: the command, then its output cut to 1000 (keyword) or 1500
\* (feature) characters
RECURSIVE SearchEvents(_, _, _)
SearchEvents(type, cmds, rets) ==
    IF cmds = <<>> THEN <<>>
    ELSE (IF Shown(type, rets[1])
          THEN <<CommandEvent(cmds[1]),
                 ResultEvent(rets[1],
                             IF type = "keyword_search" THEN 1000 ELSE 1500)>>
          ELSE <<>>)
             \o SearchEvents(type, Tail(cmds), Tail(rets))

\* a strategy that was issued: where it stands, when it was issued, whether it
\* counted a cache hit or a miss, how often it called validate_command and
\* create_subprocess_shell, the events it has yielded, the events it
\* collected for the search cache, the files it is reading, and what its
\* reads have returned (each a pair of the file and the returned text), and
\* how many entries it has written to the two caches, and the commands it
\* has handed to _run_shell_command, in the order of the calls; while its
\* reads are scheduled and not yet started, `ahead` holds the strategies whose
\* next step may already be in the event loop's queue
NewTask(strategy, t) ==
    [strategy |-> strategy, pc |-> "start", issued_at |-> t,
     counted |-> "none", validations |-> 0, spawns |-> 0, events |-> <<>>,
     results_to_cache |-> <<>>, pending |-> <<>>, read_results |-> <<>>,
     cache_writes |-> 0, commands |-> <<>>, ahead |-> {}]

InFlight(t) == t.pc \notin {"done", "faulted"}

\* the strategy is still at the first await after it was started
AtFirstAwait(t) ==
    \/ t.strategy.type = "keyword_search" /\ t.pc = "find"
    \/ t.strategy.type = "specific_feature" /\ t.pc = "grep" /\ t.events = <<>>

\* process_query: the searches of a plan are started together by
\* _execute_parallel_strategies; everything else waits for them and runs alone
Ready(type) ==
    \A i \in 1..Len(tasks) :
        InFlight(tasks[i]) => (type \in SearchTypes /\ AtFirstAwait(tasks[i]))

\* a session is given at most MaxIssues strategies
MayStart(type) == Len(tasks) < MaxIssues /\ Ready(type)

Count(metrics, name, n) == [metrics EXCEPT ![name] = @ + n]

\* _deep_content_analysis: `if file_path in self.context_cache: continue`
RECURSIVE SkipCached(_, _)
SkipCached(cache, files) ==
    IF files = <<>> \/ ~InCache(cache, files[1]) THEN files
    ELSE SkipCached(cache, Tail(files))

\* _deep_content_analysis runs on to its next await: the files already cached
\* are skipped, the cat of the first other file is announced, validated and
\* spawned; with no file left the strategy is done
ContinueDeep(t, files, cache) ==
    LET rest == SkipCached(cache, files)
    IN  IF rest = <<>>
        THEN [t EXCEPT !.pc = "done", !.pending = <<>>]
        ELSE [t EXCEPT !.pc = "cat", !.pending = rest,
                       !.events = Append(@, CommandEvent(CatCmd(rest[1]))),
                       !.validations = @ + 1,
                       !.spawns = @ + SpawnsOf(<<CatCmd(rest[1])>>),
                       !.commands = Append(@, CatCmd(rest[1]))]

\* a search starts its commands cmds and waits for them
StartCommands(t, cmds, next_pc) ==
    [t EXCEPT !.pc = next_pc,
              !.validations = @ + Len(cmds),
              !.spawns = @ + SpawnsOf(cmds),
              !.commands = @ \o cmds]

\* _read_files_batch: the paths of file_paths that are read whether they are
\* cached or not
FilesToRead_Unfiltered(cache, file_paths) == Take(file_paths, 10)

\* _read_files_batch: files_to_read[:10], files_to_read being the paths of
\* file_paths that are not in the content cache
FilesToRead(cache, file_paths) ==
    Take(SelectSeq(file_paths, LAMBDA f : ~InCache(cache, f)), 10)

\* asyncio.gather wraps read_file(fp) into tasks, which the event loop starts
\* after the callbacks that are already in its queue: between the filter of
\* _read_files_batch and the start of its reads every other strategy may
\* take the one step it was woken for, and the reads that were scheduled
\* earlier start earlier
MayStep(i) ==
    \A j \in 1..Len(tasks) :
        (j # i /\ tasks[j].pc = "read_scheduled") => i \in tasks[j].ahead

\* strategy i has taken its step
Stepped(ts, i) ==
    [j \in 1..Len(ts) |->
        IF j # i /\ i \in ts[j].ahead
        THEN [ts[j] EXCEPT !.ahead = @ \ {i}] ELSE ts[j]]

\* the session of one agent: nothing is running, the clock is at 0, and the
\* content cache holds what earlier queries read
SessionInit ==
    /\ command = find_cmd
    /\ symlinks = {}
    /\ ExecutorIdle
    /\ \E n \in EarlierReads :
           /\ context_cache = [i \in 1..n |-> [path |-> i, len |-> 12]]
           /\ query = NoQuery(n > 0)
    /\ search_cache = {}
    /\ performance_metrics =
           [llm_calls |-> 0, shell_commands |-> 0, cache_hits |-> 0,
            cache_misses |-> 0]
    /\ now = 0
    /\ tasks = <<>>
    /\ cli = NoCommandCall

\* time.time() moves on
Tick ==
    /\ now < MaxTicks * TickSeconds
    /\ now' = now + TickSeconds
    /\ UNCHANGED <<executorVars, cli, query, context_cache, search_cache,
                   performance_metrics, tasks>>

\* _keyword_search_parallel(keywords) up to its first await: keywords that
\* cannot be joined into a cache key raise; a fresh entry of the search cache
\* is replayed, otherwise the miss is counted and find_cmd is run
KeywordSearchStarts(s) ==
    /\ LET key == CacheKey("keyword_search", s.keywords)
           t == NewTask(s, now)
       IN  IF Unjoinable(s.keywords)
           THEN /\ tasks' = Append(tasks, [t EXCEPT !.pc = "faulted"])
                /\ UNCHANGED performance_metrics
           ELSE IF \E e \in search_cache : e.key = key /\ CacheFresh(e, now)
           THEN LET e == CHOOSE e \in search_cache : e.key = key
                IN  /\ performance_metrics' =
                           Count(performance_metrics, "cache_hits", 1)
                    /\ tasks' = Append(tasks,
                           [t EXCEPT !.pc = "done", !.counted = "hit",
                                     !.events = e.results])
           ELSE /\ performance_metrics' =
                       Count(Count(performance_metrics, "cache_misses", 1),
                             "shell_commands", 1)
                /\ tasks' = Append(tasks,
                       StartCommands([t EXCEPT !.counted = "miss"],
                                     <<find_cmd>>, "find"))
    /\ UNCHANGED <<executorVars, cli, context_cache, search_cache, now>>

\* process_query is given a keyword search
IssueKeywordSearch ==
    \E s \in Strategies :
        /\ s.type = "keyword_search"
        /\ MayStart(s.type)
        /\ KeywordSearchStarts(s)
        /\ UNCHANGED query

\* _specific_feature_search_parallel(keywords) up to its first await:
\* keywords that cannot be joined into a cache key raise; a fresh entry of the
\* search cache is replayed, otherwise the miss is counted and the two
\* searches of each keyword are run
FeatureSearchStarts(s) ==
    /\ LET key == CacheKey("feature_search", s.keywords)
           t == NewTask(s, now)
       IN  IF Unjoinable(s.keywords)
           THEN /\ tasks' = Append(tasks, [t EXCEPT !.pc = "faulted"])
                /\ UNCHANGED performance_metrics
           ELSE IF \E e \in search_cache : e.key = key /\ CacheFresh(e, now)
           THEN LET e == CHOOSE e \in search_cache : e.key = key
                IN  /\ performance_metrics' =
                           Count(performance_metrics, "cache_hits", 1)
                    /\ tasks' = Append(tasks,
                           [t EXCEPT !.pc = "done", !.counted = "hit",
                                     !.events = e.results])
           ELSE /\ performance_metrics' =
                       Count(Count(performance_metrics, "cache_misses", 1),
                             "shell_commands", Len(SearchCmds(s)))
                /\ tasks' = Append(tasks,
                       StartCommands([t EXCEPT !.counted = "miss"],
                                     SearchCmds(s), "grep"))
    /\ UNCHANGED <<executorVars, cli, context_cache, search_cache, now>>

\* process_query is given a feature search
IssueFeatureSearch ==
    \E s \in Strategies :
        /\ s.type = "specific_feature"
        /\ MayStart(s.type)
        /\ FeatureSearchStarts(s)
        /\ UNCHANGED query

\* _keyword_search_parallel: find_cmd has returned (its output is not used);
\* one grep per keyword of keywords[:3] is run
FindReturns ==
    \E i \in 1..Len(tasks) :
        /\ tasks[i].pc = "find"
        /\ MayStep(i)
        /\ performance_metrics' =
               Count(performance_metrics, "shell_commands",
                     Len(SearchCmds(tasks[i].strategy)))
        /\ tasks' = Stepped([tasks EXCEPT ![i] =
               StartCommands(@, SearchCmds(tasks[i].strategy), "grep")], i)
        /\ UNCHANGED <<executorVars, cli, query, context_cache, search_cache, now>>

\* both searches: the searches have returned; the outputs that are shown are
\* yielded and collected, the files they name go to _read_files_batch, which
\* schedules the reads of those not in the content cache; with nothing to
\* read the events are stored in the search cache at once
SearchesReturn ==
    \E i \in 1..Len(tasks) :
        /\ tasks[i].pc = "grep"
        /\ MayStep(i)
        /\ LET t == tasks[i]
               type == t.strategy.type
               cmds == SearchCmds(t.strategy)
           IN  \E rets \in [1..Len(cmds) -> SessionReturns \cup
                              {SecurityErrorReturn(VerdictOf(c)) : c \in
                                   {cmds[k] : k \in 1..Len(cmds)}}] :
               \E matches \in MatchSamples :
                   /\ \A k \in 1..Len(cmds) : rets[k] \in ReturnsOf(cmds[k])
                   /\ matches # <<>> =>
                          \E k \in 1..Len(cmds) : Shown(type, rets[k])
                   /\ LET events == SearchEvents(type, cmds, rets)
                          file_paths == Take(matches,
                              IF type = "keyword_search" THEN 10 ELSE 15)
                          files_to_read ==
                              FilesToRead(context_cache, file_paths)
                          yielded == [t EXCEPT !.events = events,
                                               !.results_to_cache = events]
                      IN  IF files_to_read = <<>>
                          THEN /\ tasks' = Stepped([tasks EXCEPT ![i] =
                                      [yielded EXCEPT !.pc = "done",
                                                      !.cache_writes = @ + 1]],
                                      i)
                               /\ search_cache' = StoreSearch(search_cache,
                                      CacheKey(IF type = "keyword_search"
                                               THEN "keyword_search"
                                               ELSE "feature_search",
                                               t.strategy.keywords),
                                      now, events)
                          ELSE /\ tasks' = Stepped([tasks EXCEPT ![i] =
                                      [yielded EXCEPT
                                          !.pc = "read_scheduled",
                                          !.pending = files_to_read,
                                          !.ahead =
                                              {j \in 1..Len(tasks) :
                                                   /\ j # i
                                                   /\ InFlight(tasks[j])}]],
                                      i)
                               /\ UNCHANGED search_cache
        /\ UNCHANGED <<executorVars, cli, query, context_cache,
                       performance_metrics, now>>

\* _read_files_batch.read_file: the event loop starts the reads that were
\* scheduled; each counts a shell command and hands its cat to
\* _run_shell_command
ReadsStart ==
    \E i \in 1..Len(tasks) :
        /\ tasks[i].pc = "read_scheduled"
        /\ MayStep(i)
        /\ \A j \in tasks[i].ahead : tasks[j].pc # "read_scheduled"
        /\ LET t == tasks[i]
               reads == [k \in 1..Len(t.pending) |-> CatCmd(t.pending[k])]
           IN  /\ tasks' = Stepped([tasks EXCEPT ![i] =
                      StartCommands([t EXCEPT !.ahead = {}], reads, "read")],
                      i)
               /\ performance_metrics' =
                      Count(performance_metrics, "shell_commands", Len(reads))
        /\ UNCHANGED <<executorVars, cli, query, context_cache, search_cache, now>>

\* _read_files_batch: the reads have returned; each usable content goes
\* through _add_to_cache; back in the search, the collected events are stored
\* in the search cache under the time of the store
ReadsReturn ==
    \E i \in 1..Len(tasks) :
        /\ tasks[i].pc = "read"
        /\ MayStep(i)
        /\ LET t == tasks[i]
               files == t.pending
           IN  \E rets \in [1..Len(files) -> ReadReturns \cup
                              {SecurityErrorReturn(VerdictOf(CatCmd(f))) :
                                   f \in {files[k] : k \in 1..Len(files)}}] :
                   /\ \A k \in 1..Len(files) :
                          rets[k] \in ReadReturnsOf(CatCmd(files[k]))
                   /\ context_cache' = AddAllToCache(context_cache, files, rets)
                   /\ search_cache' = StoreSearch(search_cache,
                          CacheKey(IF t.strategy.type = "keyword_search"
                                   THEN "keyword_search" ELSE "feature_search",
                                   t.strategy.keywords),
                          now, t.results_to_cache)
                   /\ tasks' = Stepped([tasks EXCEPT ![i] =
                          [t EXCEPT !.pc = "done", !.pending = <<>>,
                                    !.read_results =
                                        [k \in 1..Len(files) |->
                                            <<files[k], rets[k]>>],
                                    !.cache_writes = @ + 1 + Cardinality(
                                        {k \in 1..Len(files) :
                                             Usable(rets[k])})]], i)
        /\ UNCHANGED <<executorVars, cli, query, performance_metrics, now>>

\* _deep_content_analysis(files) up to its first await
DeepAnalysisStarts(s) ==
    /\ tasks' = Append(tasks,
           ContinueDeep(NewTask(s, now), Take(s.files, 5), context_cache))
    /\ UNCHANGED <<executorVars, cli, context_cache, search_cache,
                   performance_metrics, now>>

\* process_query starts _deep_content_analysis(files) once the searches of
\* the plan are over
IssueDeepAnalysis ==
    \E s \in Strategies :
        /\ s.type = "deep_content_analysis"
        /\ MayStart(s.type)
        /\ DeepAnalysisStarts(s)
        /\ UNCHANGED query

\* _deep_content_analysis: the cat has returned; a usable content is written
\* to the content cache as it is, its first 2000 characters are yielded and
\* _analyze_file_content asks the model; any other content is dropped and the
\* loop goes on
CatReturns ==
    \E i \in 1..Len(tasks) :
        /\ tasks[i].pc = "cat"
        /\ LET t == tasks[i]
               file_path == t.pending[1]
           IN  \E content \in ReadReturnsOf(CatCmd(file_path)) :
                   IF Usable(content)
                   THEN /\ context_cache' =
                               Assign(context_cache, file_path, content.len)
                        /\ performance_metrics' =
                               Count(performance_metrics, "llm_calls", 1)
                        /\ tasks' = [tasks EXCEPT ![i] =
                               [t EXCEPT !.pc = "analyze",
                                         !.events = Append(@,
                                             ResultEvent(content, 2000)),
                                         !.read_results = Append(@,
                                             <<file_path, content>>),
                                         !.cache_writes = @ + 1]]
                   ELSE /\ tasks' = [tasks EXCEPT ![i] =
                               ContinueDeep(
                                   [t EXCEPT !.read_results = Append(@,
                                        <<file_path, content>>)],
                                   Tail(t.pending), context_cache)]
                        /\ UNCHANGED <<context_cache, performance_metrics>>
        /\ UNCHANGED <<executorVars, cli, query, search_cache, now>>

\* _deep_content_analysis: the model has answered and the loop goes on, or the
\* call has raised and process_query gives the strategy up
AnalysisReturns ==
    \E i \in 1..Len(tasks) :
        /\ tasks[i].pc = "analyze"
        /\ \/ tasks' = [tasks EXCEPT ![i] =
                  ContinueDeep(@, Tail(tasks[i].pending), context_cache)]
           \/ tasks' = [tasks EXCEPT ![i] =
                  [@ EXCEPT !.pc = "faulted", !.pending = <<>>]]
        /\ UNCHANGED <<executorVars, cli, query, context_cache, search_cache,
                       performance_metrics, now>>

SessionNext ==
    \/ Tick
    \/ IssueKeywordSearch
    \/ IssueFeatureSearch
    \/ IssueDeepAnalysis
    \/ FindReturns
    \/ SearchesReturn
    \/ ReadsStart
    \/ ReadsReturn
    \/ CatReturns
    \/ AnalysisReturns

SessionSpec == SessionInit /\ [][SessionNext]_vars

(***************************************************************************)
(* One query of a session: SmartSearchAgent.process_query, its planner     *)
(* _combined_query_analysis and the heuristic _analyze_query               *)
(***************************************************************************)

\* query.lower()
LowerStr(s) == [k \in 1..Len(s) |-> Lower(s[k])]

LowerChars == {LowerOf[c] : c \in UpperChars}

DigitChars == {"0","1","2","3","4","5","6","7","8","9"}

\* str.isupper(): a cased character, and no lowercase one
IsUpper(word) ==
    /\ \E k \in 1..Len(word) : word[k] \in UpperChars
    /\ \A k \in 1..Len(word) : word[k] \notin LowerChars

\* str.isalnum() on ASCII text
IsAlnum(word) ==
    /\ word # <<>>
    /\ \A k \in 1..Len(word) :
           word[k] \in UpperChars \cup LowerChars \cup DigitChars

\* str.isdigit() on ASCII text
IsDigit(word) ==
    /\ word # <<>>
    /\ \A k \in 1..Len(word) : word[k] \in DigitChars

\* query.split(), for a text whose only whitespace is the space
Words(text) == SelectSeq(Split(text, " "), LAMBDA w : w # <<>>)

\* any(term in text for term in terms)
AnyIn(terms, text) == \E term \in terms : Contains(text, term)

\* the queries a user sends; none holds a backslash
Queries ==
    { <<"A","2">>, <<"w","h","a","t"," ","a","i">>,
      <<"a","l","l"," ","m","d">>, <<"r","m">> }

technical_terms ==
    { <<"a","i">>, <<"m","l">>, <<"a","p","i">>, <<"s","d","k">>,
      <<"g","p","u">>, <<"c","p","u">>, <<"m","o","d","e","l">>,
      <<"e","n","g","i","n","e">>, <<"s","e","r","v","e","r">>,
      <<"c","l","i","e","n","t">>, <<"p","r","o","t","o","c","o","l">>,
      <<"f","o","r","m","a","t">>, <<"v","e","r","s","i","o","n">>,
      <<"f","e","a","t","u","r","e">>,
      <<"c","a","p","a","b","i","l","i","t","y">>,
      <<"s","u","p","p","o","r","t">>,
      <<"c","o","n","f","i","g","u","r","a","t","i","o","n">> }

\* re.findall(r'\\b[A-Za-z0-9]+\\b', text[i-1:]): in a raw string the pattern
\* asks for a backslash and a b, letters and digits, and a backslash and a b
\* again, so a text without a backslash has no match
RECURSIVE FindTechnical(_, _)
FindTechnical(text, i) ==
    IF i + 1 > Len(text) THEN <<>>
    ELSE LET alnum(k) == k <= Len(text) /\ IsAlnum(<<text[k]>>)
             \* the first position after the letters and digits from i + 2
             j == CHOOSE j \in (i + 2)..(Len(text) + 1) :
                      /\ \A k \in (i + 2)..(j - 1) : alnum(k)
                      /\ ~alnum(j)
         IN  IF /\ text[i] = "\\" /\ text[i + 1] = "b"
                /\ j > i + 2
                /\ j + 1 <= Len(text)
                /\ text[j] = "\\" /\ text[j + 1] = "b"
             THEN <<Slice(text, i, j + 1)>> \o FindTechnical(text, j + 2)
             ELSE FindTechnical(text, i + 1)

TechnicalWords(text) == FindTechnical(text, 1)

\* xs with the elements that occur in seen, or earlier in xs, left out
RECURSIVE Unseen(_, _)
Unseen(xs, seen) ==
    IF xs = <<>> THEN <<>>
    ELSE IF \E k \in 1..Len(seen) : seen[k] = xs[1]
    THEN Unseen(Tail(xs), seen)
    ELSE <<xs[1]>> \o Unseen(Tail(xs), Append(seen, xs[1]))

\* _extract_technical_keywords(query); the third loop adds the longer words:
\* a match holds backslashes, so it is no stop word
ExtractTechnicalKeywords(text) ==
    LET words == TechnicalWords(text)
        short == SelectSeq(words,
                     LAMBDA w : IsUpper(w) \/
                                (Len(w) <= 3 /\ IsAlnum(w) /\ ~IsDigit(w)))
        terms == Unseen(SelectSeq(words,
                            LAMBDA w : LowerStr(w) \in technical_terms),
                        short)
        long == Unseen(SelectSeq(words, LAMBDA w : Len(w) > 3),
                       short \o terms)
    IN  Take(short \o terms \o long, 5)

\* _analyze_query(query) after its model call has returned: the strategy is
\* chosen from the text of the query alone
AnalyzeQuery(text) ==
    LET query_lower == LowerStr(text)
    IN  IF Contains(query_lower, <<"a","2">>) \/ Contains(text, <<"A","2">>)
        THEN [type |-> "specific_feature",
              keywords |-> << <<"A","2">>, <<"a","2">> >>, files |-> <<>>]
        ELSE IF /\ AnyIn({ <<"w","h","a","t">>, <<"w","h","i","c","h">>,
                           <<"s","u","p","p","o","r","t","e","d">>,
                           <<"a","v","a","i","l","a","b","l","e">> },
                         query_lower)
                /\ AnyIn({ <<"a","i">>, <<"m","o","d","e","l">>,
                           <<"f","e","a","t","u","r","e">>,
                           <<"c","a","p","a","b","i","l","i","t","y">> },
                         query_lower)
        THEN LET keywords ==
                     SelectSeq(Words(text),
                         LAMBDA w :
                             \/ IsUpper(w)
                             \/ Len(w) <= 3 /\ IsAlnum(w)
                             \/ LowerStr(w) \in
                                    { <<"a","i">>, <<"m","o","d","e","l">>,
                                      <<"g","p","u">>, <<"c","p","u">>,
                                      <<"a","p","i">> })
             IN  [type |-> "specific_feature",
                  keywords |-> Take(IF keywords = <<>>
                                    THEN ExtractTechnicalKeywords(text)
                                    ELSE keywords, 3),
                  files |-> <<>>]
        ELSE IF /\ Contains(query_lower, <<"a","l","l">>)
                /\ AnyIn({ <<"m","d">>, <<"m","a","r","k","d","o","w","n">>,
                           <<"f","i","l","e","s">> }, query_lower)
        THEN [type |-> "file_exploration", patterns |-> << <<"*",".","m","d">> >>]
        ELSE [type |-> "keyword_search",
              keywords |-> ExtractTechnicalKeywords(text), files |-> <<>>]

\* the steps a model may plan: a dict of the "strategies" list of its answer
KeywordStep(keywords, priority) ==
    [type |-> "keyword_search", keywords |-> keywords, files |-> <<>>,
     priority |-> priority]

\* a feature search the model gave no priority
FeatureStep(keywords) ==
    [type |-> "specific_feature", keywords |-> keywords, files |-> <<>>]

DeepStep(files, priority) ==
    [type |-> "deep_content_analysis", keywords |-> <<>>, files |-> files,
     priority |-> priority]

ExploreStep(patterns, priority) ==
    [type |-> "file_exploration", patterns |-> patterns, priority |-> priority]

\* a step the model gave no "type"
UntypedStep(keywords, priority) ==
    [keywords |-> keywords, priority |-> priority]

\* the "strategies" lists a model may answer with
PlannedLists ==
    { << DeepStep(<<1, max_cache_size + 2>>, "low"),
         KeywordStep(<< <<"A","2">> >>, "high") >>,
      << KeywordStep(<<NonString>>, "high"), FeatureStep(<< <<"A","2">> >>) >>,
      << DeepStep(<<1, max_cache_size + 2>>, "low"),
         ExploreStep(<< <<"*",".","m","d">> >>, "high") >>,
      << UntypedStep(<< <<"A","2">> >>, "high") >>,
      << ExploreStep(<< <<"*",".","m","d">> >>, "low"),
         FeatureStep(<< <<"A","2">> >>),
         KeywordStep(<<>>, "high"),
         KeywordStep(<< <<"A","2">> >>, "urgent") >> }

\* what the model may answer the planner with: text that is no JSON, a JSON
\* array, or a JSON object whose "strategies" is a list of dicts (an object
\* without the key reads as one with the empty list)
PlannerAnswers ==
    { [kind |-> "text", strategies |-> <<>>],
      [kind |-> "array", strategies |-> <<>>] }
        \cup { [kind |-> "object", strategies |-> p] :
                   p \in PlannedLists \cup {<<>>} }

\* json.loads(response) and the two result.get of the planner return
ParsesToObject(answer) == answer.kind = "object"

\* {'high': 0, 'medium': 1, 'low': 2}.get(s.get('priority', 'medium'), 1)
Rank(s) ==
    IF "priority" \notin DOMAIN s THEN 1
    ELSE IF s.priority = "high" THEN 0
    ELSE IF s.priority = "low" THEN 2
    ELSE 1

RECURSIVE InsertByRank(_, _)
InsertByRank(sorted, s) ==
    IF sorted = <<>> THEN <<s>>
    ELSE IF Rank(sorted[1]) <= Rank(s)
    THEN <<sorted[1]>> \o InsertByRank(Tail(sorted), s)
    ELSE <<s>> \o sorted

\* the plan is run as the planner returned it
SortByPriority_PlanOrder(strategies) == strategies

\* search_strategies.sort(key=...): list.sort is stable
RECURSIVE SortByPriority(_)
SortByPriority(strategies) ==
    IF strategies = <<>> THEN <<>>
    ELSE InsertByRank(
             SortByPriority(SubSeq(strategies, 1, Len(strategies) - 1)),
             strategies[Len(strategies)])

\* 'type' in strategy
HasType(s) == "type" \in DOMAIN s

ParallelStrategies(plan) ==
    SelectSeq(plan, LAMBDA s : s.type \in SearchTypes)

SequentialStrategies(plan) ==
    SelectSeq(plan, LAMBDA s : s.type \notin SearchTypes)

\* the order process_query runs a plan in
RunOrder(plan) == ParallelStrategies(plan) \o SequentialStrategies(plan)

\* the model calls a query has made for its planner
PlanningCalls(calls) ==
    SelectSeq(calls, LAMBDA c : c \in {"plan", "analyze_query"})

SynthesisCalls(calls) == SelectSeq(calls, LAMBDA c : c = "synthesis")

\* _explore_files: the non-blank lines of what the find returned; an output
\* lists one file, a timeout reads as the one line of its message
ListedLines(r) ==
    CASE r.kind = "output" -> <<ListedPath(1)>>
      [] r.kind = "timeout" -> <<TIMEOUT_TEXT>>

\* _combined_query_analysis, with no usable plan from the model:
\* `strategies = [await self._analyze_query(query)]`
FallbackPlan_NoStrategy(text) == <<>>

FallbackPlan(text) == <<AnalyzeQuery(text)>>

\* process_query: `for strategy in sequential_strategies` has ended, which it
\* does once every strategy of the plan has run to its end or faulted
StrategiesOver_AtFirstFault(plan, issued) ==
    \/ \E i \in 1..Len(issued) : issued[i].pc = "faulted"
    \/ /\ Len(issued) = Len(plan)
       /\ \A i \in 1..Len(issued) : ~InFlight(issued[i])

StrategiesOver(plan, issued) ==
    /\ Len(issued) = Len(plan)
    /\ \A i \in 1..Len(issued) : ~InFlight(issued[i])

\* process_query: `if not self.context_cache`
NothingFound_Never(cache) == FALSE

NothingFound(cache) == cache = <<>>

\* _execute_parallel_strategies has started every search of the plan
GroupStarted ==
    /\ query.pc = "searching"
    /\ Len(tasks) >= Len(ParallelStrategies(query.plan))

\* process_query(query) up to its first await: the first message is yielded,
\* _init_file_structure is started unless the file structure is known, and
\* the planner is started, which counts its model call and makes it
ProcessQueryStarts ==
    \E text \in Queries :
        /\ query.pc = "idle"
        /\ tasks = <<>>
        /\ query' = [query EXCEPT !.pc = "planning", !.text = text,
                                  !.emitted = <<"thinking">>,
                                  !.init_pending = ~query.file_structure,
                                  !.planner = "model",
                                  !.calls = <<"plan">>]
        /\ performance_metrics' = Count(performance_metrics, "llm_calls", 1)
        /\ UNCHANGED <<executorVars, cli, context_cache, search_cache, now, tasks>>

\* _init_file_structure: tree_cmd has returned and the structure parsed from
\* whatever it returned is stored
InitFileStructureReturns ==
    /\ query.init_pending
    /\ query' = [query EXCEPT !.init_pending = FALSE, !.file_structure = TRUE]
    /\ UNCHANGED <<executorVars, cli, context_cache, search_cache,
                   performance_metrics, now, tasks>>

\* _combined_query_analysis: the model call has returned or raised.  The call
\* is made outside the try, so a raise ends the planner; an answer with a
\* non-empty "strategies" is the plan; without one _analyze_query is called
\* inside the try, and after a parsing fault inside the except handler, and
\* makes its own model call
PlannerModelAnswers ==
    /\ query.planner = "model"
    /\ \/ query' = [query EXCEPT !.planner = "raised"]
       \/ \E answer \in PlannerAnswers :
              IF ParsesToObject(answer) /\ answer.strategies # <<>>
              THEN query' = [query EXCEPT !.plan = answer.strategies,
                                          !.planned = answer.strategies,
                                          !.answer = answer.kind,
                                          !.planner = "returned"]
              ELSE query' = [query EXCEPT
                                !.answer = answer.kind,
                                !.planner = IF ParsesToObject(answer)
                                            THEN "fallback_in_try"
                                            ELSE "fallback_in_except",
                                !.calls = Append(@, "analyze_query")]
    /\ UNCHANGED <<executorVars, cli, context_cache, search_cache,
                   performance_metrics, now, tasks>>

\* _analyze_query: its model call has returned, and the heuristic strategy is
\* the plan; or it has raised: inside the try the except handler calls
\* _analyze_query again, inside the handler the planner ends with the fault
FallbackModelAnswers ==
    /\ query.planner \in {"fallback_in_try", "fallback_in_except"}
    /\ \/ query' = [query EXCEPT !.plan = FallbackPlan(query.text),
                                 !.planned = FallbackPlan(query.text),
                                 !.planner = "returned"]
       \/ query' = IF query.planner = "fallback_in_try"
                   THEN [query EXCEPT !.planner = "fallback_in_except",
                                      !.calls = Append(@, "analyze_query")]
                   ELSE [query EXCEPT !.planner = "raised"]
    /\ UNCHANGED <<executorVars, cli, context_cache, search_cache,
                   performance_metrics, now, tasks>>

\* process_query: `thinking, search_strategies = await combined_analysis_task`
\* returns once _init_file_structure is over, or raises what the planner
\* raised; the plan is sorted in place and split, which raises KeyError at a
\* strategy without "type"
PlanningReturns ==
    /\ query.pc = "planning"
    /\ ~query.init_pending
    /\ query.planner \in {"returned", "raised"}
    /\ IF query.planner = "raised"
       THEN query' = [query EXCEPT !.pc = "raised", !.raised_in = "planner"]
       ELSE LET sorted == SortByPriority(query.plan)
            IN  query' = [query EXCEPT
                    !.plan = sorted,
                    !.emitted = Append(@, "searching"),
                    !.pc = IF \A k \in 1..Len(sorted) : HasType(sorted[k])
                           THEN "searching" ELSE "raised",
                    !.raised_in = IF \A k \in 1..Len(sorted) : HasType(sorted[k])
                                  THEN "none" ELSE "plan"]
    /\ UNCHANGED <<executorVars, cli, context_cache, search_cache,
                   performance_metrics, now, tasks>>

\* _execute_parallel_strategies: asyncio.gather starts the next search of the
\* plan, which runs to its first await; the first one follows the message
\* that announces the parallel searches
StartSearch ==
    /\ query.pc = "searching"
    /\ Len(tasks) < Len(ParallelStrategies(query.plan))
    /\ LET s == ParallelStrategies(query.plan)[Len(tasks) + 1]
       IN  /\ Ready(s.type)
           /\ IF s.type = "keyword_search"
              THEN KeywordSearchStarts(s)
              ELSE FeatureSearchStarts(s)
    /\ query' = IF tasks = <<>>
                THEN [query EXCEPT !.emitted = Append(@, "parallel")]
                ELSE query

\* an exploration with no pattern left is done; otherwise the find of the
\* next pattern is announced, validated and spawned
ContinueExplore(t, patterns) ==
    IF patterns = <<>>
    THEN [t EXCEPT !.pc = "done", !.patterns = <<>>, !.lines = <<>>]
    ELSE [t EXCEPT !.pc = "explore_find", !.patterns = patterns,
                   !.lines = <<>>,
                   !.events = Append(@,
                       CommandEvent(ExploreFindCmd(patterns[1]))),
                   !.validations = @ + 1,
                   !.spawns = @ + SpawnsOf(<<ExploreFindCmd(patterns[1])>>),
                   !.commands = Append(@, ExploreFindCmd(patterns[1]))]

\* the strategy of an exploration: a task that also holds the patterns left
\* and the listed lines left
ExploreTask(s, t) ==
    [strategy |-> s, pc |-> "start", issued_at |-> t,
     counted |-> "none", validations |-> 0, spawns |-> 0, events |-> <<>>,
     results_to_cache |-> <<>>, pending |-> <<>>, read_results |-> <<>>,
     cache_writes |-> 0, commands |-> <<>>, ahead |-> {},
     patterns |-> <<>>, lines |-> <<>>]

\* _explore_files(patterns) up to its first await
ExploreFilesStarts(s) ==
    /\ tasks' = Append(tasks, ContinueExplore(ExploreTask(s, now), s.patterns))
    /\ UNCHANGED <<executorVars, cli, context_cache, search_cache,
                   performance_metrics, now>>

\* process_query: the searches are over and the next sequential strategy is
\* announced and started, once the one before it has ended or faulted
StartSequential ==
    /\ GroupStarted
    /\ Len(tasks) < Len(query.plan)
    /\ LET s == RunOrder(query.plan)[Len(tasks) + 1]
       IN  /\ Ready(s.type)
           /\ \/ s.type = "deep_content_analysis" /\ DeepAnalysisStarts(s)
              \/ s.type = "file_exploration" /\ ExploreFilesStarts(s)
    /\ query' = [query EXCEPT !.emitted = Append(@, "strategy")]

\* _explore_files: the find has returned and all of it is yielded; the
\* directory of the first listed line is announced and the head of the line
\* is run (one line is listed: one directory, one file)
ExploreFindReturns ==
    \E i \in 1..Len(tasks) :
        /\ tasks[i].pc = "explore_find"
        /\ LET t == tasks[i]
           IN  \E r \in ReturnsOf(ExploreFindCmd(t.patterns[1])) :
                   LET shown == [t EXCEPT !.events = Append(@,
                                    [type |-> "result", text |-> <<>>,
                                     len |-> r.len])]
                       lines == ListedLines(r)
                   IN  tasks' = [tasks EXCEPT ![i] =
                           IF lines = <<>>
                           THEN ContinueExplore(shown, Tail(t.patterns))
                           ELSE [shown EXCEPT
                                    !.pc = "explore_head",
                                    !.lines = lines,
                                    !.events = @ \o
                                        <<[type |-> "message", text |-> <<>>,
                                           len |-> 0],
                                          CommandEvent(HeadCmd(lines[1]))>>,
                                    !.validations = @ + 1,
                                    !.spawns = @ +
                                        SpawnsOf(<<HeadCmd(lines[1])>>),
                                    !.commands = Append(@,
                                        HeadCmd(lines[1]))]]
        /\ UNCHANGED <<executorVars, cli, query, context_cache, search_cache,
                       performance_metrics, now>>

\* _explore_files: the head has returned and content[:300] + "..." is
\* yielded; with no other line listed the next pattern follows
ExploreHeadReturns ==
    \E i \in 1..Len(tasks) :
        /\ tasks[i].pc = "explore_head"
        /\ LET t == tasks[i]
           IN  \E r \in ReturnsOf(HeadCmd(t.lines[1])) :
                   tasks' = [tasks EXCEPT ![i] =
                       ContinueExplore(
                           [t EXCEPT !.events = Append(@,
                                [type |-> "result", text |-> <<>>,
                                 len |-> 3 + (IF r.len > 300 THEN 300
                                              ELSE r.len)])],
                           Tail(t.patterns))]
        /\ UNCHANGED <<executorVars, cli, query, context_cache, search_cache,
                       performance_metrics, now>>

\* process_query after its strategies: "Preparing answer" is yielded; with an
\* empty content cache the canned answer is yielded and the query ends,
\* otherwise _deep_synthesis counts its model call and makes it
PrepareAnswer ==
    /\ query.pc = "searching"
    /\ StrategiesOver(query.plan, tasks)
    /\ IF NothingFound(context_cache)
       THEN /\ query' = [query EXCEPT
                    !.pc = "not_found",
                    !.emitted = @ \o <<"preparing", "not_found">>]
            /\ UNCHANGED performance_metrics
       ELSE /\ query' = [query EXCEPT
                    !.pc = "synthesis",
                    !.emitted = Append(@, "preparing"),
                    !.calls = Append(@, "synthesis")]
            /\ performance_metrics' =
                   Count(performance_metrics, "llm_calls", 1)
    /\ UNCHANGED <<executorVars, cli, context_cache, search_cache, now, tasks>>

\* _deep_synthesis: the model call has returned and the answer is yielded, or
\* it has raised and process_query ends with the fault
SynthesisAnswers ==
    /\ query.pc = "synthesis"
    /\ \/ query' = [query EXCEPT !.pc = "answered",
                                 !.emitted = Append(@, "answer")]
       \/ query' = [query EXCEPT !.pc = "raised", !.raised_in = "synthesis"]
    /\ UNCHANGED <<executorVars, cli, context_cache, search_cache,
                   performance_metrics, now, tasks>>

QueryNext ==
    \/ ProcessQueryStarts
    \/ InitFileStructureReturns
    \/ PlannerModelAnswers
    \/ FallbackModelAnswers
    \/ PlanningReturns
    \/ StartSearch
    \/ StartSequential
    \/ GroupStarted /\ FindReturns
    \/ GroupStarted /\ SearchesReturn
    \/ ReadsStart
    \/ ReadsReturn
    \/ CatReturns
    \/ AnalysisReturns
    \/ ExploreFindReturns
    \/ ExploreHeadReturns
    \/ PrepareAnswer
    \/ SynthesisAnswers

\* what earlier queries of the session may have left in the search cache:
\* nothing, or the events of a feature search for the product code and its
\* lower case, all four searches shown, stored when the clock read 0
EarlierSearches ==
    { {},
      { [key |-> CacheKey("feature_search", << <<"A","2">>, <<"a","2">> >>),
         timestamp |-> 0,
         results |-> SearchEvents("specific_feature",
                         FeatureGrepCmds(<< <<"A","2">>, <<"a","2">> >>),
                         [k \in 1..4 |->
                             SuccessReturn(max_cache_content_size + 1,
                                           FALSE)])] } }

\* a query arrives in a session: as SessionInit, with what earlier queries
\* left in the two caches
QueryInit ==
    /\ command = find_cmd
    /\ symlinks = {}
    /\ ExecutorIdle
    /\ \E n \in EarlierReads :
           /\ context_cache = [i \in 1..n |-> [path |-> i, len |-> 12]]
           /\ query = NoQuery(n > 0)
    /\ search_cache \in EarlierSearches
    /\ performance_metrics =
           [llm_calls |-> 0, shell_commands |-> 0, cache_hits |-> 0,
            cache_misses |-> 0]
    /\ now = 0
    /\ tasks = <<>>
    /\ cli = NoCommandCall

QuerySpec == QueryInit /\ [][QueryNext]_vars

\* the event loop runs every task that can run, and every subprocess and
\* every model call the query waits for returns or raises
QueryFairSpec == QuerySpec /\ WF_vars(QueryNext)


(***************************************************************************)
(* What the properties below speak of                                      *)
(***************************************************************************)

\* validate_command has returned its verdict on command
Judged == pc # "idle"

Denied == ~verdict.allowed

HasPipe(c) == \E i \in 1..Len(c) : c[i] = "|"

\* the pipe segments of a command: the parts between its "|" characters; a
\* command without a pipe is its own single segment
SegmentsOf(c) == IF HasPipe(c) THEN Split(Strip(c), "|") ELSE <<Strip(c)>>

\* the tokens of a command or segment, none when its quoting cannot be lexed
TokensOf(c) ==
    LET lexed == ShlexSplit(Strip(c)) IN IF lexed.ok THEN lexed.tokens ELSE <<>>

\* the arguments of a command or segment that are not flags
PathArgsOf(c) ==
    LET toks == TokensOf(c)
    IN  {toks[k] : k \in {j \in 2..Len(toks) : toks[j] = <<>> \/ toks[j][1] # "-"}}

\* a path has a component that is ".."
HasTraversalSegment(path) ==
    \E k \in 1..Len(Split(path, "/")) : Split(path, "/")[k] = <<".",".">>

\* a canonical path is the workspace root or lies below it
InsideWorkspace(resolved) ==
    \/ resolved = WORKSPACE_DIR
    \/ StartsWith(resolved, WORKSPACE_DIR \o <<"/">>)

\* the canonical path a path argument stands for, relative paths being taken
\* from the workspace root
CanonicalOf(path) ==
    Resolve(IF path # <<>> /\ path[1] = "/" THEN path
            ELSE WORKSPACE_DIR \o <<"/">> \o path, symlinks)

(***************************************************************************)
(* C1.  A command whose leading token, or the leading token of one of its  *)
(* pipe segments, is not in the read-only allowlist is denied.             *)
(***************************************************************************)

LeadingTokenOutsideAllowlist(c) ==
    \E k \in 1..Len(SegmentsOf(c)) :
        LET toks == TokensOf(SegmentsOf(c)[k])
        IN  toks # <<>> /\ toks[1] \notin ALLOWED_COMMANDS

\* C1: whenever validate_command has judged a command one of whose segments
\* starts with a token outside ALLOWED_COMMANDS, the verdict is denied
C1_LeadingTokenOutsideAllowlistIsDenied ==
    (Judged /\ LeadingTokenOutsideAllowlist(command)) => Denied

\* a pipe whose second segment starts with echo was judged, and denied for it
C1_Witness ==
    /\ Judged
    /\ HasPipe(command)
    /\ LeadingTokenOutsideAllowlist(command)
    /\ Denied
    /\ verdict.reason = "Command in pipe is not allowed"
    /\ verdict.arg = <<"e","c","h","o">>

(***************************************************************************)
(* C2.  A command with a non-flag argument that contains a ".." segment or *)
(* whose canonical path is neither the workspace root nor below it is      *)
(* denied, whatever its leading command.                                   *)
(***************************************************************************)

EscapingArgument(c) ==
    \E k \in 1..Len(SegmentsOf(c)) :
        \E path \in PathArgsOf(SegmentsOf(c)[k]) :
            \/ HasTraversalSegment(path)
            \/ ~InsideWorkspace(CanonicalOf(path))

\* C2: whenever validate_command has judged a command with an argument that
\* traverses upward or resolves outside the workspace, the verdict is denied
C2_EscapingArgumentIsDenied ==
    (Judged /\ EscapingArgument(command)) => Denied

(***************************************************************************)
(* C3.  A command that contains a forbidden metacharacter or a forbidden   *)
(* verb as a word is denied, inside a pipe segment too.                    *)
(***************************************************************************)

\* the verb stands in c as a word: no word character before or after it
VerbAsWord(c, verb) ==
    \E i \in 1..(Len(c) - Len(verb) + 1) :
        /\ \A k \in 1..Len(verb) : c[i + k - 1] = verb[k]
        /\ i = 1 \/ ~IsWordChar(c[i - 1])
        /\ i + Len(verb) > Len(c) \/ ~IsWordChar(c[i + Len(verb)])

ContainsForbiddenVerb(c) ==
    \E v \in 1..Len(FORBIDDEN_VERBS) : VerbAsWord(c, FORBIDDEN_VERBS[v])

\* ";", "&&", "$(" or "${"
ContainsChainingOrSubstitution(c) ==
    \/ Contains(c, <<";">>)
    \/ Contains(c, <<"&","&">>)
    \/ Contains(c, <<"$","(">>)
    \/ Contains(c, <<"$","{">>)

\* two backquotes with at least one character between them
ContainsBackquotedText(c) ==
    \E i, j \in 1..Len(c) :
        /\ i + 1 < j
        /\ c[i] = Backquote
        /\ c[j] = Backquote

\* C3 as claimed: whenever validate_command has judged a command that holds
\* ";", "&&", "$(", "${", a backquote or a forbidden verb as a word, the
\* verdict is denied
C3_ForbiddenConstructIsDenied ==
    (Judged /\ (\/ ContainsChainingOrSubstitution(command)
                \/ Contains(command, <<Backquote>>)
                \/ ContainsForbiddenVerb(command))) => Denied

\* C3 as amended: whenever validate_command has judged a command that holds
\* ";", "&&", "$(", "${", a pair of backquotes around at least one character,
\* or a forbidden verb as a word, the verdict is denied
C3_ForbiddenConstructOrBackquotedTextIsDenied ==
    (Judged /\ (\/ ContainsChainingOrSubstitution(command)
                \/ ContainsBackquotedText(command)
                \/ ContainsForbiddenVerb(command))) => Denied

\* a pipe with a forbidden verb in a later segment was judged, and denied by
\* the scan of the raw string
C3_Witness ==
    /\ Judged
    /\ HasPipe(command)
    /\ \E k \in 2..Len(SegmentsOf(command)) :
           ContainsForbiddenVerb(SegmentsOf(command)[k])
    /\ ~ContainsForbiddenVerb(SegmentsOf(command)[1])
    /\ Denied
    /\ verdict.reason = "Forbidden operation detected"

(***************************************************************************)
(* C4.  An agent spawns a subprocess for a string only after               *)
(* validate_command allowed exactly that string.                           *)
(***************************************************************************)

\* C4: every string passed to create_subprocess_shell is the command that was
\* judged and was allowed, and nothing is spawned for a denied command
C4_SpawnOnlyAfterAllowed ==
    /\ \A c \in spawned : c = command /\ c \in validated /\ verdict.allowed
    /\ (Judged /\ Denied) => spawned = {}

\* GeminiCLIAgent has spawned the shell for the command it validated
C4_Witness ==
    /\ caller = "GeminiCLIAgent"
    /\ pc = "running"
    /\ spawned = {command}
    /\ validated = {command}


(***************************************************************************)
(* C5.  A command that contains an output redirection, ">" or ">>", is     *)
(* denied, whatever follows the operator and wherever it stands.           *)
(***************************************************************************)

\* C5: whenever validate_command has judged a command that contains ">", the
\* verdict is denied
C5_OutputRedirectionIsDenied ==
    (Judged /\ Contains(command, <<">">>)) => Denied

(***************************************************************************)
(* C6.  A find command with -exec, -execdir, -ok, -okdir or -delete among  *)
(* its tokens, and an awk command whose script holds "system(" or          *)
(* "getline <", is denied.                                                 *)
(***************************************************************************)

DangerousFindFlags ==
    { <<"-","e","x","e","c">>, <<"-","e","x","e","c","d","i","r">>,
      <<"-","o","k">>, <<"-","o","k","d","i","r">>,
      <<"-","d","e","l","e","t","e">> }

\* the command's leading token is find and a dangerous flag is among its tokens
DangerousFind(c) ==
    LET toks == TokensOf(c)
    IN  /\ toks # <<>>
        /\ toks[1] = <<"f","i","n","d">>
        /\ \E k \in 2..Len(toks) : toks[k] \in DangerousFindFlags

\* the command's leading token is awk and the rest of it, the script, holds a
\* system( call or a getline < read
DangerousAwk(c) ==
    LET toks == TokensOf(c)
    IN  /\ toks # <<>>
        /\ toks[1] = <<"a","w","k">>
        /\ \/ Contains(Join(Tail(toks), <<" ">>), <<"s","y","s","t","e","m","(">>)
           \/ Contains(Join(Tail(toks), <<" ">>),
                       <<"g","e","t","l","i","n","e"," ","<">>)

\* C6: whenever validate_command has judged a find command with a dangerous
\* flag or an awk command with a dangerous script, the verdict is denied
C6_DangerousFindOrAwkIsDenied ==
    (Judged /\ (DangerousFind(command) \/ DangerousAwk(command))) => Denied

(***************************************************************************)
(* C7.  A command with a pipe is allowed only if every segment between the *)
(* pipes has a leading token, and that token is in the allowlist.          *)
(***************************************************************************)

EverySegmentLeadsWithAllowed(c) ==
    \A k \in 1..Len(SegmentsOf(c)) :
        LET toks == TokensOf(SegmentsOf(c)[k])
        IN  toks # <<>> /\ toks[1] \in ALLOWED_COMMANDS

\* C7: whenever validate_command has allowed a command that contains "|", each
\* of its segments starts with an allowlisted token
C7_AllowedPipeHasOnlyAllowedSegments ==
    (Judged /\ HasPipe(command) /\ verdict.allowed)
        => EverySegmentLeadsWithAllowed(command)

(***************************************************************************)
(* C8.  Every command that contains a pipe is denied, as the test suite    *)
(* expects of "sort names.txt | uniq".                                     *)
(***************************************************************************)

\* C8: whenever validate_command has judged a command that contains "|", the
\* verdict is denied
C8_PipeIsDenied ==
    (Judged /\ HasPipe(command)) => Denied

(***************************************************************************)
(* C9.  A pipe-free command of at most 500 characters is allowed when its  *)
(* leading token is allowlisted, no forbidden pattern matches it, its      *)
(* non-flag arguments are paths without ".." inside the workspace, and it  *)
(* passes the find and awk hardening.                                      *)
(***************************************************************************)

WellFormed(c) ==
    /\ ~HasPipe(c)
    /\ Len(c) <= MAX_COMMAND_LENGTH
    /\ TokensOf(c) # <<>>
    /\ TokensOf(c)[1] \in ALLOWED_COMMANDS
    /\ ~MatchesForbidden(c)
    /\ \A path \in PathArgsOf(c) :
           /\ ~Contains(path, <<".",".">>)
           /\ InsideWorkspace(CanonicalOf(path))
    /\ ~DangerousFind(c)
    /\ ~DangerousAwk(c)

\* C9: whenever validate_command has judged a command that meets every one of
\* these conditions, the verdict is allowed
C9_WellFormedCommandIsAllowed ==
    (Judged /\ WellFormed(command)) => verdict.allowed

\* a find command with a flag and two path arguments was judged and allowed
C9_Witness ==
    /\ Judged
    /\ WellFormed(command)
    /\ TokensOf(command)[1] = <<"f","i","n","d">>
    /\ Cardinality(PathArgsOf(command)) >= 2
    /\ Len(TokensOf(command)) > 3
    /\ verdict.allowed

(***************************************************************************)
(* C10.  The empty command, a whitespace-only command and a command longer *)
(* than MAX_COMMAND_LENGTH once stripped are denied; a command of exactly  *)
(* MAX_COMMAND_LENGTH characters is not denied for its length.             *)
(***************************************************************************)

WhitespaceOnly(c) == \A i \in 1..Len(c) : IsSpace(c[i])

\* C10: whenever validate_command has judged a command that is empty, blank or
\* over the limit once stripped, the verdict is denied; and a command exactly
\* at the limit is not turned down as too long
C10_EmptyBlankOrOverlongIsDenied ==
    Judged =>
        /\ (\/ WhitespaceOnly(command)
            \/ Len(Strip(command)) > MAX_COMMAND_LENGTH) => Denied
        /\ Len(Strip(command)) = MAX_COMMAND_LENGTH
               => verdict.reason # "Command too long (max 500 chars)"

\* a command one character over the limit was judged and denied as too long
C10_Witness ==
    /\ Judged
    /\ Len(Strip(command)) = MAX_COMMAND_LENGTH + 1
    /\ Denied
    /\ verdict.reason = "Command too long (max 500 chars)"

(***************************************************************************)
(* C11.  validate_command returns a verdict for every string and never     *)
(* raises; a command whose quoting cannot be tokenized is denied, with a   *)
(* parsing-error reason when the tokenizer is what stops it, and is never  *)
(* executed.                                                               *)
(***************************************************************************)

\* the reasons validate_command returns
Reasons ==
    { "Empty command", "Command too long (max 500 chars)",
      "Forbidden operation detected", "Command in pipe is not allowed",
      "Invalid path in pipe", "Empty command after parsing",
      "Command is not allowed. Use only read operations.",
      "Invalid or forbidden path",
      "Find command contains forbidden operations",
      "Awk command contains forbidden operations", "Command validated" }

ParsingErrorReasons ==
    { "Command parsing error: No closing quotation",
      "Command parsing error: No escaped character" }

\* shlex cannot tokenize the command, or one of its pipe segments
Untokenizable(c) ==
    \/ ~ShlexSplit(Strip(c)).ok
    \/ \E k \in 1..Len(SegmentsOf(c)) : ~ShlexSplit(Strip(SegmentsOf(c)[k])).ok

\* the command passes the checks made before tokenizing, and the first thing
\* tokenized (the command, or its first segment that is not blank) fails
StoppedByTokenizer(c) ==
    /\ ~TooLong(Strip(c))
    /\ ~MatchesForbidden(Strip(c))
    /\ \E k \in 1..Len(SegmentsOf(c)) :
           /\ ~ShlexSplit(Strip(SegmentsOf(c)[k])).ok
           /\ \A j \in 1..(k - 1) : Strip(SegmentsOf(c)[j]) = <<>>

FlagValue(tok) ==
    IF ~StartsWith(tok, <<"-">>) THEN <<>>
    ELSE IF Contains(tok, <<"=">>)
    THEN LET eq == CHOOSE i \in 1..Len(tok) :
                       tok[i] = "=" /\ \A j \in 1..(i - 1) : tok[j] # "="
         IN  Slice(tok, eq + 1, Len(tok))
    ELSE IF Len(tok) > 2 /\ tok[2] # "-" THEN Slice(tok, 3, Len(tok))
    ELSE <<>>

\* the shell replaces the token by the user's home directory, which is not
\* under the workspace: an unquoted ~ at its start, or $HOME anywhere in it
ExpandsToHome(c, tok) ==
    /\ ~Contains(c, <<"'">>) /\ ~Contains(c, <<"\"">>) /\ ~Contains(c, <<"\\">>)
    /\ \/ StartsWith(tok, <<"~">>)
       \/ Contains(tok, <<"$","H","O","M","E">>)

\* the token names a place outside the workspace root
ReferencesOutside(c, tok) ==
    \/ /\ tok # <<>>
       /\ ~StartsWith(tok, <<"-">>)
       /\ ~InsideWorkspace(CanonicalOf(tok))
    \/ /\ StartsWith(FlagValue(tok), <<"/">>)
       /\ ~InsideWorkspace(Resolve(FlagValue(tok), symlinks))
    \/ ExpandsToHome(c, tok)

\* C12: whenever validate_command has allowed a command, no argument token of
\* any of its segments references a path outside the workspace root
C12_AllowedCommandStaysInWorkspace ==
    (Judged /\ verdict.allowed) =>
        \A k \in 1..Len(SegmentsOf(command)) :
            LET toks == TokensOf(SegmentsOf(command)[k])
            IN  \A t \in 2..Len(toks) : ~ReferencesOutside(command, toks[t])

(***************************************************************************)
(* C13.  validate_command is deterministic and without side effects.  As   *)
(* claimed, its verdict depends on the command string alone, whatever the  *)
(* symbolic links under the workspace; in the code the verdict depends on  *)
(* the string and on the links that Path.resolve() follows.                *)
(***************************************************************************)

Filesystems == SUBSET PossibleLinks

ResolvesAlikeEverywhere(c) ==
    \A k \in 1..Len(SegmentsOf(c)) :
        \A path \in PathArgsOf(SegmentsOf(c)[k]) :
            \A links \in Filesystems :
                LET abs_path == IF StartsWith(path, <<"/">>) THEN path
                                ELSE WORKSPACE_DIR \o <<"/">> \o path
                IN  Resolve(abs_path, links) = Resolve(abs_path, {})

C14_ReasonNamesTheForbiddenVerb ==
    (/\ Judged
     /\ verdict.reason = "Forbidden operation detected"
     /\ ContainsForbiddenVerb(command))
        => \E v \in 1..Len(FORBIDDEN_VERBS) :
               /\ verdict.arg = FORBIDDEN_VERBS[v]
               /\ VerbAsWord(command, FORBIDDEN_VERBS[v])

(***************************************************************************)
(* C15.  The output an executor returns for an accepted command is at most *)
(* max_cache_content_size characters long and ends with the truncation     *)
(* marker exactly when more than that was captured.                        *)
(***************************************************************************)

\* C15: whenever an executor has returned the output of a command that was
\* allowed and run, the returned text has at most max_cache_content_size
\* characters, and it carries the marker if and only if the captured output
\* was longer than that
C15_ReturnedOutputIsCappedAndMarked ==
    (pc = "returned" /\ verdict.allowed /\ outcome = "output") =>
        /\ returned.len <= max_cache_content_size
        /\ returned.marked <=> returned.captured > max_cache_content_size

(***************************************************************************)
(* C16.  When a subprocess exceeds the timeout the executor terminates it: *)
(* once the executor has returned its timeout failure the subprocess is no *)
(* longer running.                                                         *)
(***************************************************************************)

\* C16: whenever an executor has returned a timeout failure, the subprocess
\* it spawned is not running
C16_TimedOutSubprocessIsTerminated ==
    (pc = "returned" /\ outcome = "timeout") => proc # "running"

(***************************************************************************)
(* C17.  For every command given to an executor exactly one attempt record *)
(* is sent to the audit logger, before any spawn, and for every command    *)
(* that was executed exactly one result record is sent, however it ended.  *)
(***************************************************************************)

RecordsOf(event) == {i \in 1..Len(audit) : audit[i].event = event}

\* C17: once a command was judged there is exactly one attempt record, and it
\* is the first record; once an executor has returned from a command it
\* spawned a shell for, there is exactly one result record
C17_OneAttemptAndOneResultRecord ==
    /\ Judged => (RecordsOf("command_attempt") = {1})
    /\ (pc = "returned" /\ command \in spawned)
           => Cardinality(RecordsOf("command_result")) = 1


\* C18: after any sequence of operations of a SmartSearchAgent session
\* (keyword and feature searches, batch reads, deep content analysis), the
\* content cache holds at most max_cache_size (50) entries.
C18_ContentCacheHoldsAtMostMaxEntries == Len(context_cache) <= max_cache_size

\* C19: in every reachable state of a SmartSearchAgent session, every value
\* stored in the content cache has length at most max_cache_content_size
\* (10000), whichever operation stored it.
C19_CachedValuesAreAtMostMaxContentSize ==
    \A i \in 1..Len(context_cache) :
        context_cache[i].len <= max_cache_content_size


\* the key of the search cache a search strategy is stored under
KeyOf(strategy) ==
    CacheKey(IF strategy.type = "keyword_search" THEN "keyword_search"
             ELSE "feature_search", strategy.keywords)

\* C20: whenever the same keyword-search (or feature-search) strategy is
\* issued twice within the TTL window in one session, the second issue yields
\* exactly the event sequence of the first, increments cache_hits and not
\* cache_misses, and invokes neither validate_command nor a subprocess.
C20_SecondIssueWithinTtlReplaysTheFirst ==
    \A i, j \in 1..Len(tasks) :
        (/\ i < j
         /\ tasks[i].strategy = tasks[j].strategy
         /\ tasks[i].strategy.type \in SearchTypes
         /\ ~Unjoinable(tasks[i].strategy.keywords)
         /\ tasks[j].issued_at - tasks[i].issued_at < search_cache_ttl)
        => /\ tasks[j].counted = "hit"
           /\ tasks[j].validations = 0
           /\ tasks[j].spawns = 0
           /\ (~InFlight(tasks[i]) /\ ~InFlight(tasks[j]))
                  => tasks[j].events = tasks[i].events

\* C20 (amended): whenever a keyword-search (or feature-search) strategy is
\* issued while the search cache holds, under the key of the strategy, an
\* entry stored less than search_cache_ttl seconds ago, the issue yields
\* exactly the stored event sequence, which is the event sequence of the
\* earlier issue that stored it, increments cache_hits and no other counter,
\* and invokes neither validate_command nor a subprocess.
C20_IssueOverFreshEntryReplaysIt ==
    [][\A e \in search_cache :
          (/\ Len(tasks') = Len(tasks) + 1
           /\ tasks'[Len(tasks')].strategy.type \in SearchTypes
           /\ ~Unjoinable(tasks'[Len(tasks')].strategy.keywords)
           /\ KeyOf(tasks'[Len(tasks')].strategy) = e.key
           /\ now - e.timestamp < search_cache_ttl)
          => /\ tasks'[Len(tasks')].events = e.results
             /\ \E i \in 1..Len(tasks) :
                    /\ tasks[i].counted = "miss"
                    /\ tasks[i].pc = "done"
                    /\ KeyOf(tasks[i].strategy) = e.key
                    /\ tasks[i].events = e.results
             /\ tasks'[Len(tasks')].counted = "hit"
             /\ tasks'[Len(tasks')].pc = "done"
             /\ performance_metrics' =
                    [performance_metrics EXCEPT !.cache_hits = @ + 1]
             /\ tasks'[Len(tasks')].validations = 0
             /\ tasks'[Len(tasks')].spawns = 0]_vars

C20_Witness ==
    \E i, j \in 1..Len(tasks) :
        /\ i < j
        /\ tasks[i].strategy = tasks[j].strategy
        /\ tasks[i].counted = "miss"
        /\ tasks[j].counted = "hit"
        /\ tasks[j].events # <<>>
        /\ tasks[j].events = tasks[i].events
        /\ performance_metrics.cache_hits = 1
        /\ performance_metrics.cache_misses = 1


(***************************************************************************)
(* C26.  A pipe segment is judged by the rules of a standalone command.    *)
(***************************************************************************)

\* the segments of a command that are not blank
NonEmptySegmentsOf(c) ==
    {SegmentsOf(c)[k] : k \in {j \in 1..Len(SegmentsOf(c)) :
                                   Strip(SegmentsOf(c)[j]) # <<>>}}

\* C26: whenever validate_command has allowed a command that contains "|",
\* it allows each non-empty segment of the command taken on its own, the find
\* and awk hardening included
C26_AllowedPipeHasOnlyAllowedStandaloneSegments ==
    (Judged /\ HasPipe(command) /\ verdict.allowed)
        => \A segment \in NonEmptySegmentsOf(command) :
               ValidateCommand(segment, symlinks).allowed


(***************************************************************************)
(* C27.  Only the output of a read that succeeded becomes cached content.  *)
(***************************************************************************)

\* the read command came back with exit status 0
ReadSucceeded(r) == r.kind \in {"output", "no_output"}

\* the entries the content cache holds after a step and did not hold before
EntriesWritten ==
    {context_cache'[k] : k \in 1..Len(context_cache')}
        \ {context_cache[k] : k \in 1..Len(context_cache)}

\* C27: an entry is added to the content cache only for a path whose read
\* command succeeded: whenever a step writes an entry, the strategy taking
\* the step has read that path and the read came back with exit status 0;
\* the text returned for a command that was denied, timed out, failed to
\* spawn or exited non-zero is never stored.
C27_OnlySuccessfulReadsAreCached ==
    [][\A e \in EntriesWritten :
          \E i \in 1..Len(tasks) :
              /\ tasks'[i] # tasks[i]
              /\ \E k \in 1..Len(tasks'[i].read_results) :
                     /\ tasks'[i].read_results[k][1] = e.path
                     /\ ReadSucceeded(tasks'[i].read_results[k][2])]_vars


(***************************************************************************)
(* C28.  _add_to_cache evicts oldest-first, and only at capacity.          *)
(***************************************************************************)

\* the paths _add_to_cache is called with and the content lengths it is given
StoredPaths == {1, 2, max_cache_size + 1, max_cache_size + 2}

StoredLengths == {12, max_cache_content_size + TRUNCATION_MARKER_LEN}

\* the entries of a cache other than the one of a path, in insertion order
Others(cache, path) == SelectSeq(cache, LAMBDA e : e.path # path)

C29_FaultedStepHasWrittenNoCache ==
    \A i \in 1..Len(tasks) :
        tasks[i].pc = "faulted" => tasks[i].cache_writes = 0

\* a step has written the content cache or the search-result cache
CacheWritten ==
    context_cache' # context_cache \/ search_cache' # search_cache

\* C30: the content cache and the search-result cache are written only by
\* the orchestrator after a child task has returned: no step of a child of
\* the parallel group writes a cache while another child of the group is
\* still in flight.
C30_NoCacheWriteInsideAChildWhileSiblingsRun ==
    [][CacheWritten =>
          ~\E i, j \in 1..Len(tasks) :
               /\ i # j
               /\ tasks'[i] # tasks[i]
               /\ tasks[i].strategy.type \in SearchTypes
               /\ tasks[j].strategy.type \in SearchTypes
               /\ InFlight(tasks[j])]_vars


(***************************************************************************)
(* C21..C25: the planner and the end of a query                            *)
(***************************************************************************)

\* the planner had no plan from the model and called _analyze_query
FallbackUsed == \E k \in 1..Len(query.calls) : query.calls[k] = "analyze_query"

\* C21: whenever the planner (_combined_query_analysis) has returned, the
\* plan it returned holds at least one strategy, whatever the model answered:
\* text that is no JSON, JSON that is no object, an object without
\* strategies or with an empty list
C21_ReturnedPlanHoldsAStrategy ==
    query.planner = "returned" =>
        /\ Len(query.plan) >= 1
        /\ FallbackUsed => (Len(query.plan) = 1 /\ HasType(query.plan[1]))

\* the model answered an object with no strategy, the fallback ran inside the
\* try and the planner returned its one strategy
C21_Witness ==
    /\ query.planner = "returned"
    /\ query.answer = "object"
    /\ FallbackUsed
    /\ Len(query.plan) = 1

\* C22: whenever the planner has returned, it has made exactly one call to
\* the language-model service, with the model's plan as with the fallback
C22_PlanningMakesOneModelCall ==
    query.planner = "returned" => Len(PlanningCalls(query.calls)) = 1

Last(xs) == xs[Len(xs)]

\* process_query has run all the strategies of its plan and gone on
PastStrategies ==
    \/ query.pc \in {"not_found", "synthesis", "answered"}
    \/ query.pc = "raised" /\ query.raised_in = "synthesis"

\* process_query has ended after running its strategies
EndedPastStrategies == PastStrategies /\ query.pc # "synthesis"

\* C23 as stated: once process_query has ended after running its strategies,
\* with an empty content cache it has emitted the canned answer last and made
\* no synthesis call, with a non-empty one it has made exactly one synthesis
\* call and emitted the answer last
C23_NotFoundOrOneSynthesisAndTheAnswer ==
    EndedPastStrategies =>
        IF context_cache = <<>>
        THEN /\ query.pc = "not_found"
             /\ Last(query.emitted) = "not_found"
             /\ SynthesisCalls(query.calls) = <<>>
        ELSE /\ Len(SynthesisCalls(query.calls)) = 1
             /\ Last(query.emitted) = "answer"

\* C23 amended: once process_query has run its strategies, with an empty
\* content cache it has emitted the canned answer last, made no synthesis
\* call and ended; with a non-empty one it has made exactly one synthesis
\* call, and when that call has returned the answer is the last event, and
\* when it has raised no answer is emitted
C23_NotFoundOrOneSynthesisAndTheAnswerIfItReturns ==
    PastStrategies =>
        IF context_cache = <<>>
        THEN /\ query.pc = "not_found"
             /\ Last(query.emitted) = "not_found"
             /\ SynthesisCalls(query.calls) = <<>>
        ELSE /\ Len(SynthesisCalls(query.calls)) = 1
             /\ query.pc = "answered" => Last(query.emitted) = "answer"
             /\ query.pc \in {"synthesis", "raised"} =>
                    Last(query.emitted) = "preparing"

\* a strategy of the query filled the empty content cache and the answer of
\* the one synthesis call was emitted
C23_Witness ==
    /\ query.pc = "answered"
    /\ context_cache # <<>>
    /\ \E i \in 1..Len(tasks) : tasks[i].cache_writes > 0
    /\ Len(SynthesisCalls(query.calls)) = 1
    /\ Last(query.emitted) = "answer"

SomeStrategyFaulted == \E i \in 1..Len(tasks) : tasks[i].pc = "faulted"

\* every strategy of the plan was started, in the order of the plan, and has
\* run to its end or faulted
PlanHasRun ==
    /\ Len(tasks) = Len(query.plan)
    /\ \A j \in 1..Len(tasks) :
           /\ tasks[j].strategy = RunOrder(query.plan)[j]
           /\ tasks[j].pc \in {"done", "faulted"}

\* a step in which strategy i faults leaves every other strategy as it was
FaultLeavesSiblings ==
    \A i \in 1..Len(tasks') :
        (/\ tasks'[i].pc = "faulted"
         /\ i <= Len(tasks) => tasks[i].pc # "faulted")
            => \A j \in 1..Len(tasks) : j # i => tasks'[j] = tasks[j]

\* C24: a strategy that faults does not abort the plan: the query is not
\* ended by it, a step in which a strategy faults changes no other strategy,
\* once process_query has gone past its strategies every strategy of the plan
\* has run to its end or faulted itself, and after a fault the query still
\* reaches synthesis or the not-found answer
C24_FaultedStrategyIsSkipped ==
    /\ [](SomeStrategyFaulted => (query.pc = "searching" \/ PastStrategies))
    /\ []((SomeStrategyFaulted /\ PastStrategies) => PlanHasRun)
    /\ [][FaultLeavesSiblings]_vars
    /\ SomeStrategyFaulted ~> PastStrategies

\* a parallel search faulted, its sibling ran to its end and wrote the
\* caches, and the query was answered
C24_Witness ==
    /\ query.pc = "answered"
    /\ \E i, j \in 1..Len(tasks) :
           /\ tasks[i].pc = "faulted"
           /\ tasks[i].strategy.type \in SearchTypes
           /\ tasks[j].strategy.type \in SearchTypes
           /\ tasks[j].pc = "done"
           /\ tasks[j].cache_writes > 0

\* C25: process_query ends with a fault only when the final synthesis call
\* has raised
C25_OnlyAFailedSynthesisEndsAbnormally ==
    query.pc = "raised" => query.raised_in = "synthesis"

(***************************************************************************)
(* One input of GeminiCLIAgent.interactive_session: process_command runs   *)
(* the commands extracted from the model's response, and the session       *)
(* prints what it returned                                                 *)
(***************************************************************************)

\* the commands one response holds
MaxExtracted == 3

\* the commands the model's response may hold
CliCommands == { <<"l","s">>, <<"r","m"," ","x">> }

\* what _extract_commands may return
ExtractedLists == UNION { [1..n -> CliCommands] : n \in 1..MaxExtracted }

CliVerdicts == { <<c, ValidateCommand(c, {})>> : c \in CliCommands }

\* CommandValidator.validate_command(cmd)
CliVerdictOf(cmd) == (CHOOSE p \in CliVerdicts : p[1] = cmd)[2]

\* what _execute_command may return in a session: the output of the command
\* or the text of a timeout
CliOutputs ==
    {r \in ExecuteCommandReturns : r.kind \in {"output", "timeout"}}

\* zip(result['commands_executed'], result['outputs']): the k-th command
\* with the k-th output, as far as the shorter list goes
Zip(commands_executed, executed_at, outputs) ==
    [k \in 1..(IF Len(commands_executed) < Len(outputs)
               THEN Len(commands_executed) ELSE Len(outputs)) |->
        [cmd |-> commands_executed[k], at |-> executed_at[k],
         output |-> outputs[k]]]

\* process_command(user_input) up to its loop: the model has answered and
\* _extract_commands has returned the commands of the response
ProcessCommandExtracts ==
    /\ cli.pc = "idle"
    /\ \E cmds \in ExtractedLists :
           cli' = [NoCommandCall EXCEPT !.pc = "loop", !.commands = cmds,
                                        !.turn = 1]
    /\ UNCHANGED <<executorVars, context_cache, search_cache,
                   performance_metrics, now, tasks, query>>

\* process_command: one turn of `for cmd in commands` up to its await: an
\* allowed command is handed to _execute_command, for a denied one the
\* security error is appended to the outputs
ProcessCommandTurn ==
    /\ cli.pc = "loop"
    /\ cli.turn <= Len(cli.commands)
    /\ LET v == CliVerdictOf(cli.commands[cli.turn])
       IN  IF v.allowed
           THEN cli' = [cli EXCEPT !.pc = "executing"]
           ELSE cli' = [cli EXCEPT
                           !.outputs = Append(@,
                               [at |-> cli.turn,
                                text |-> SecurityErrorReturn(v)]),
                           !.turn = @ + 1]
    /\ UNCHANGED <<executorVars, context_cache, search_cache,
                   performance_metrics, now, tasks, query>>

\* process_command: _execute_command has returned; the command and its
\* output are appended to the result
ExecuteCommandResumes ==
    /\ cli.pc = "executing"
    /\ \E r \in CliOutputs :
           cli' = [cli EXCEPT
                      !.pc = "loop",
                      !.commands_executed = Append(@, cli.commands[cli.turn]),
                      !.executed_at = Append(@, cli.turn),
                      !.outputs = Append(@, [at |-> cli.turn, text |-> r]),
                      !.turn = @ + 1]
    /\ UNCHANGED <<executorVars, context_cache, search_cache,
                   performance_metrics, now, tasks, query>>

\* process_command: the loop is over and the result is returned
ProcessCommandReturns ==
    /\ cli.pc = "loop"
    /\ cli.turn > Len(cli.commands)
    /\ cli' = [cli EXCEPT !.pc = "returned"]
    /\ UNCHANGED <<executorVars, context_cache, search_cache,
                   performance_metrics, now, tasks, query>>

\* interactive_session: each command of result['commands_executed'] is
\* printed with the output zip pairs it with
InteractiveSessionDisplays ==
    /\ cli.pc = "returned"
    /\ cli' = [cli EXCEPT
                  !.pc = "displayed",
                  !.displayed = Zip(cli.commands_executed, cli.executed_at,
                                    cli.outputs)]
    /\ UNCHANGED <<executorVars, context_cache, search_cache,
                   performance_metrics, now, tasks, query>>

\* a GeminiCLIAgent waits for its input
CliInit ==
    /\ command = <<"l","s">>
    /\ symlinks = {}
    /\ ExecutorIdle
    /\ AgentConstructed

CliNext ==
    \/ ProcessCommandExtracts
    \/ ProcessCommandTurn
    \/ ExecuteCommandResumes
    \/ ProcessCommandReturns
    \/ InteractiveSessionDisplays

CliSpec == CliInit /\ [][CliNext]_vars

(***************************************************************************)
(* C31..C39: fan-out, dispatch order, batched reads, stale entries, plans  *)
(* with missing fields, the heuristic plan, command events, cache keys and *)
(* the outputs shown by the CLI agent                                      *)
(***************************************************************************)

\* the parallel strategies that have been started and have not ended
RunningSearches ==
    Cardinality({i \in 1..Len(tasks) :
                     /\ tasks[i].strategy.type \in SearchTypes
                     /\ InFlight(tasks[i])})

\* the parallel strategies of a plan of the model
PlannedSearches(p) ==
    Cardinality({k \in 1..Len(p) :
                     HasType(p[k]) /\ p[k].type \in SearchTypes})

\* the most parallel strategies a plan of PlannedLists holds
MostPlannedSearches ==
    CHOOSE n \in 0..5 :
        /\ \E p \in PlannedLists : PlannedSearches(p) = n
        /\ \A p \in PlannedLists : PlannedSearches(p) <= n

\* C31: the number of parallel strategies running at the same time stays
\* under a maximum fan-out that does not grow with the plan: the parallel
\* strategies of the largest plan never all run at once
C31_FanOutStaysBelowTheLargestPlan ==
    PlannedSearches(query.planned) = MostPlannedSearches =>
        RunningSearches < MostPlannedSearches

\* 0 for High, 2 for Low, 1 for Medium and for a missing or unknown priority
PriorityClass(s) ==
    IF "priority" \in DOMAIN s /\ s.priority = "high" THEN 0
    ELSE IF "priority" \in DOMAIN s /\ s.priority = "low" THEN 2
    ELSE 1

\* 0 for the parallel group, 1 for the sequential group
GroupOf(s) ==
    IF s.type \in {"keyword_search", "specific_feature"} THEN 0 ELSE 1

\* where the planner put the strategy in the plan it returned
PlaceOf(s) == CHOOSE k \in 1..Len(query.planned) : query.planned[k] = s

\* process_query has split the plan and is running it, or has run it
Dispatching == query.pc = "searching" \/ PastStrategies

\* C32: the strategies of a plan are started parallel group first, each group
\* High, then Medium, then Low with ties in plan order (a missing or unknown
\* priority counting as Medium); keyword_search and specific_feature are the
\* parallel group; a sequential strategy runs while nothing else runs and only
\* after every parallel strategy of the plan was started and has ended; and
\* past the strategies every strategy of the plan has been run
C32_GroupsRunInPriorityOrder ==
    Dispatching =>
        /\ \A j \in 1..Len(tasks) :
               \E k \in 1..Len(query.planned) :
                   query.planned[k] = tasks[j].strategy
        /\ \A i, j \in 1..Len(tasks) :
               i < j =>
                   LET a == tasks[i].strategy
                       b == tasks[j].strategy
                   IN  /\ GroupOf(a) <= GroupOf(b)
                       /\ GroupOf(a) = GroupOf(b) =>
                              /\ PriorityClass(a) <= PriorityClass(b)
                              /\ PriorityClass(a) = PriorityClass(b) =>
                                     PlaceOf(a) < PlaceOf(b)
        /\ \A j \in 1..Len(tasks) :
               (GroupOf(tasks[j].strategy) = 1 /\ InFlight(tasks[j])) =>
                   /\ \A i \in 1..Len(tasks) : i # j => ~InFlight(tasks[i])
                   /\ Cardinality({i \in 1..Len(tasks) :
                                       GroupOf(tasks[i].strategy) = 0})
                          = PlannedSearches(query.planned)
        /\ PastStrategies => Len(tasks) = Len(query.planned)

\* the plan of four steps has been run: the two Medium searches in plan
\* order after the High one, the Low exploration last
C32_Witness ==
    /\ PastStrategies
    /\ Len(query.planned) = 4
    /\ Len(tasks) = 4
    /\ tasks[1].strategy = query.planned[3]
    /\ tasks[2].strategy = query.planned[2]
    /\ tasks[3].strategy = query.planned[4]
    /\ tasks[4].strategy = query.planned[1]
    /\ \A j \in 1..4 : tasks[j].pc = "done"

\* C35: when the planner has returned, every strategy of the plan has its
\* type: a plan of the model with a strategy that lacks it is replaced by
\* the heuristic one, so that process_query does not fault on it
C35_ReturnedPlanHasEveryType ==
    /\ query.planner = "returned" =>
           \A k \in 1..Len(query.plan) : HasType(query.plan[k])
    /\ query.raised_in # "plan"


\* the plan in force was made by the heuristic classifier (_analyze_query)
HeuristicPlanned == query.planner = "returned" /\ FallbackUsed

\* the query text holds the product code A2
HasProductCode(text) ==
    \E i \in 1..(Len(text) - 1) : text[i] = "A" /\ text[i + 1] = "2"

\* the heuristic plan of a query with the product code: one specific_feature
\* strategy whose keywords include the code
IsCodePlan(plan) ==
    /\ Len(plan) = 1
    /\ plan[1].type = "specific_feature"
    /\ \E k \in 1..Len(plan[1].keywords) : plan[1].keywords[k] = <<"A", "2">>

\* the task has handed both searches of each of the first three keywords of
\* its strategy to _run_shell_command
BothSearchesIssued(t) ==
    \A k \in 1..Len(FirstThree(t.strategy.keywords)) :
        \A case_sensitive \in BOOLEAN :
            \E n \in 1..Len(t.commands) :
                t.commands[n] =
                    FeatureGrepCmd(t.strategy.keywords[k], case_sensitive)

\* C36 as stated: a query with the product code A2 that the heuristic plans
\* gets one specific_feature strategy with the code among its keywords, and
\* every execution of the strategy issues the case-sensitive and the
\* case-insensitive search of each of its first three keywords
C36_CodeQuerySearchesBothCases ==
    (HeuristicPlanned /\ HasProductCode(query.text)) =>
        /\ IsCodePlan(query.plan)
        /\ \A j \in 1..Len(tasks) : BothSearchesIssued(tasks[j])

\* C36 amended: the plan is as stated; an execution that finds no fresh entry
\* of the search cache issues both searches of each keyword, one that finds a
\* fresh entry replays it and issues no command
C36_CodeQuerySearchesBothCasesUnlessReplayed ==
    (HeuristicPlanned /\ HasProductCode(query.text)) =>
        /\ IsCodePlan(query.plan)
        /\ \A j \in 1..Len(tasks) :
               /\ tasks[j].counted \in {"miss", "hit"}
               /\ tasks[j].counted = "miss" => BothSearchesIssued(tasks[j])
               /\ tasks[j].counted = "hit" =>
                      /\ tasks[j].commands = <<>>
                      /\ \E e \in search_cache :
                             /\ e.key = CacheKey("feature_search",
                                            tasks[j].strategy.keywords)
                             /\ tasks[j].events = e.results

\* the heuristic plan of the query A2 has run its four searches
C36_Witness ==
    /\ HeuristicPlanned
    /\ HasProductCode(query.text)
    /\ Len(tasks) = 1
    /\ tasks[1].counted = "miss"
    /\ tasks[1].pc = "done"
    /\ Len(tasks[1].commands) >= 4
    /\ tasks[1].spawns >= 4


\* the commands task i hands to _run_shell_command in this step
IssuedNow(i) ==
    SubSeq(tasks'[i].commands, Len(tasks[i].commands) + 1,
           Len(tasks'[i].commands))

\* C33: whenever _read_files_batch issues its reads, it issues at most 10 of
\* them, and none for a path that is in the content cache at that moment,
\* however the parallel strategies interleave
C33_ReadsAtMostTenPathsNoneCached ==
    [][\A i \in 1..Len(tasks) :
          (tasks[i].pc = "read_scheduled" /\ tasks'[i].pc = "read") =>
              /\ Len(IssuedNow(i)) <= 10
              /\ \A k \in 1..Len(IssuedNow(i)) :
                     /\ IssuedNow(i)[k] = CatCmd(tasks[i].pending[k])
                     /\ ~InCache(context_cache, tasks[i].pending[k])]_vars

\* the strategy started in this step, when one is
Started == tasks'[Len(tasks')]

\* C34: whenever a search strategy is started while the search cache holds,
\* under its key, an entry that is search_cache_ttl seconds old or older, the
\* entry is not replayed: the strategy counts a cache miss and no hit and
\* runs its commands; and whenever a strategy that counted a miss ends, the
\* search cache holds under its key one entry, with the time of the store and
\* the events the strategy has just yielded
C34_StaleEntryIsRecomputedAndReplaced ==
    /\ [][\A e \in search_cache :
             (/\ Len(tasks') = Len(tasks) + 1
              /\ Started.strategy.type \in SearchTypes
              /\ ~Unjoinable(Started.strategy.keywords)
              /\ KeyOf(Started.strategy) = e.key
              /\ now - e.timestamp >= search_cache_ttl)
             => /\ Started.counted = "miss"
                /\ Started.events = <<>>
                /\ Started.pc \in {"find", "grep"}
                /\ Started.commands # <<>>
                /\ performance_metrics'.cache_misses =
                       performance_metrics.cache_misses + 1
                /\ performance_metrics'.cache_hits =
                       performance_metrics.cache_hits]_vars
    /\ [][\A i \in 1..Len(tasks) :
             (/\ tasks[i].strategy.type \in SearchTypes
              /\ tasks[i].counted = "miss"
              /\ InFlight(tasks[i])
              /\ tasks'[i].pc = "done")
             => /\ \E e \in search_cache' :
                       /\ e.key = KeyOf(tasks[i].strategy)
                       /\ e.timestamp = now'
                       /\ e.results = tasks'[i].events
                /\ Cardinality({e \in search_cache' :
                                    e.key = KeyOf(tasks[i].strategy)}) = 1]_vars

\* a search was started over an entry of its key that is search_cache_ttl
\* seconds old: it counted the second miss of the session and has run on to
\* its searches, while the old entry is still in the cache
C34_Witness ==
    /\ Len(tasks) = 2
    /\ tasks[1].pc = "done"
    /\ tasks[1].counted = "miss"
    /\ tasks[2].strategy = tasks[1].strategy
    /\ tasks[2].counted = "miss"
    /\ tasks[2].pc = "grep"
    /\ tasks[2].commands # <<>>
    /\ performance_metrics.cache_misses = 2
    /\ performance_metrics.cache_hits = 0
    /\ \E e \in search_cache :
           /\ e.key = KeyOf(tasks[2].strategy)
           /\ e.results = tasks[1].events
           /\ e.results # <<>>
           /\ tasks[2].issued_at - e.timestamp = search_cache_ttl


\* C37: every command a strategy has handed to _run_shell_command is
\* announced by a command event with its text among the events the strategy
\* has yielded by then, and every result event comes after a command event
C37_EveryCommandIsAnnouncedBeforeItRuns ==
    \A j \in 1..Len(tasks) :
        /\ \A n \in 1..Len(tasks[j].commands) :
               \E k \in 1..Len(tasks[j].events) :
                   /\ tasks[j].events[k].type = "command"
                   /\ tasks[j].events[k].text = tasks[j].commands[n]
        /\ \A k \in 1..Len(tasks[j].events) :
               tasks[j].events[k].type = "result" =>
                   \E m \in 1..(k - 1) : tasks[j].events[m].type = "command"

\* the grep commands a strategy has handed to _run_shell_command
GrepsOf(t) ==
    {t.commands[n] : n \in {m \in 1..Len(t.commands) :
                                Take(t.commands[m], 4) = <<"g","r","e","p">>}}

\* the strategy has started its searches
HasSearched(t) ==
    t.counted = "miss" /\ t.pc \in {"grep", "read_scheduled", "read", "done"}

\* C38: two search strategies of a session with the same key of the search
\* cache run the same set of search commands, and a strategy that replays an
\* entry of the cache yields command events of its own search commands only
C38_SameKeySameSearchCommands ==
    \A i, j \in 1..Len(tasks) :
        (/\ tasks[i].strategy.type \in SearchTypes
         /\ tasks[j].strategy.type \in SearchTypes
         /\ ~Unjoinable(tasks[i].strategy.keywords)
         /\ ~Unjoinable(tasks[j].strategy.keywords)
         /\ KeyOf(tasks[i].strategy) = KeyOf(tasks[j].strategy))
        => /\ (HasSearched(tasks[i]) /\ HasSearched(tasks[j])) =>
                  GrepsOf(tasks[i]) = GrepsOf(tasks[j])
           /\ tasks[j].counted = "hit" =>
                  \A k \in 1..Len(tasks[j].events) :
                      tasks[j].events[k].type = "command" =>
                          \E n \in 1..Len(SearchCmds(tasks[j].strategy)) :
                              SearchCmds(tasks[j].strategy)[n] =
                                  tasks[j].events[k].text


\* C39: when interactive_session has printed the result of a process_command
\* call, each command it printed as executed stands with the output that the
\* execution of that same command returned, whichever of the extracted
\* commands validate_command denied
C39_ShownCommandStandsWithItsOwnOutput ==
    cli.pc = "displayed" =>
        \A k \in 1..Len(cli.displayed) :
            cli.displayed[k].output.at = cli.displayed[k].at

=============================================================================
